---------------------------- MODULE Spec2Model ----------------------------
(***************************************************************************)
(* Model of the GOYO active-noise-control core: the FxLMS controller       *)
(* (GOYO-ANC/Basic_ANC/fxlms_controller.py and its Numba variant), the     *)
(* zero-crossing narrowband runner (ANC/enhanced_ANC/zero_cross_anc_cli.py)*)
(* and their session drivers.                                              *)
(*                                                                         *)
(* Numbers.  Audio samples, weights, thresholds and step sizes are reals   *)
(* in the source (float32 / float64).  They are represented here on a      *)
(* fixed-point grid: the integer v stands for the real v / ONE.  Products  *)
(* and quotients are rounded toward zero onto the grid (TruncDiv).  Float  *)
(* rounding error of the order of one ulp is below the grid and is not     *)
(* modelled.                                                               *)
(***************************************************************************)
EXTENDS Integers, Sequences, FiniteSets, TLC

VARIABLES
    anc,      \* the FxLMSANC object: configuration fields and adaptive state
    rms_log,  \* error-RMS values fed to the adaptation gate since the reset
    outdata,  \* the output buffer handed to the audio callback by the driver
    nb,       \* zero-crossing runner: the shared `state` array and out_buf
    drv,      \* zero-crossing runner: locals of run_auto_anc
    run       \* FxLMSANC.run: stream, monitor loop and metrics queue

vars == <<anc, rms_log, outdata, nb, drv, run>>

-----------------------------------------------------------------------------
(* Fixed-point helpers *)

\* The integer that stands for the real 1.0.
ONE == 1000

Abs(x) == IF x < 0 THEN -x ELSE x

Max(a, b) == IF a >= b THEN a ELSE b

Min(a, b) == IF a <= b THEN a ELSE b

\* Integer quotient rounded toward zero (sign-symmetric, as float arithmetic is).
TruncDiv(a, b) == IF a >= 0 THEN a \div b ELSE -((-a) \div b)

\* Product of two grid values, back on the grid.
Mul(a, b) == TruncDiv(a * b, ONE)

\* A clip that lets every value through.
ClipOff(x, lo, hi) == x

\* np.clip(x, lo, hi)
Clip(x, lo, hi) == IF x < lo THEN lo ELSE IF x > hi THEN hi ELSE x

RECURSIVE SumSeq(_)
SumSeq(s) == IF s = <<>> THEN 0 ELSE Head(s) + SumSeq(Tail(s))

\* Sum of squares in squared grid units (exact).
SumSq(s) == SumSeq([i \in 1..Len(s) |-> s[i] * s[i]])

\* np.dot of two grid vectors of equal length, on the grid.
Dot(a, b) == TruncDiv(SumSeq([i \in 1..Len(a) |-> a[i] * b[i]]), ONE)

RECURSIVE SqrtSearch(_, _, _)
SqrtSearch(lo, hi, s) ==
    IF lo >= hi THEN lo
    ELSE LET mid == (lo + hi) \div 2
         IN  IF mid * mid >= s THEN SqrtSearch(lo, mid, s)
                               ELSE SqrtSearch(mid + 1, hi, s)

\* Least n with n*n >= s: the square root rounded up to the grid.
CeilSqrt(s) == SqrtSearch(0, 46000, s)

\* Greatest n with n*n <= s: the square root rounded toward zero.
FloorSqrt(s) == LET c == CeilSqrt(s) IN IF c * c = s THEN c ELSE c - 1

Zeros(n) == [i \in 1..n |-> 0]

\* sqrt(mean(block ** 2)) on the grid.
Rms(block) == FloorSqrt(SumSq(block) \div Len(block))

-----------------------------------------------------------------------------
(* Program constants of fxlms_controller.py, on the grid *)

DEFAULT_ERROR_EMA_ALPHA == (5 * ONE) \div 100
DEFAULT_STOP_THRESHOLD == ONE \div 100
DEFAULT_RESTART_THRESHOLD == (2 * ONE) \div 100
MAX_NORM == ONE

-----------------------------------------------------------------------------
(* Bounds of the model *)

\* Largest adapt_hold_frames argument given to the constructor.
MaxHold == 3
\* Longest error-RMS sequence fed to the gate on its own.
MaxLog == 4
\* block_size of the modelled controllers (samples per callback).
BlockSize == 2
\* filter_length of the modelled FxLMS controller.
FilterLen == 2
\* Number of blocks the audio driver delivers in a session.
MaxBlocks == 3
\* Number of blocks the audio driver delivers to the zero-crossing runner.
MaxZcBlocks == 2
\* Clock ticks per second of the monitor loop's clock.
TicksPerSecond == 4
\* Clock ticks the zero-crossing monitor loop keeps polling after the earliest
\* time a session with a baseline can freeze.
MaxLate == 1
\* The max_duration of a bounded FxLMS session, in sleeps of the monitor loop.
MaxDuration == 2

-----------------------------------------------------------------------------
(* FxLMSANC: adaptation gate *)

\* FxLMSANC.__init__, the gate fields: error_ema_alpha is clipped to [0, 1],
\* adapt_hold_frames is at least 1 and restart_threshold at least stop_threshold.
GateConfig(alpha, hold, stop, restart) ==
    [ error_ema_alpha         |-> Clip(alpha, 0, ONE),
      adapt_hold_frames       |-> Max(1, hold),
      adapt_stop_threshold    |-> stop,
      adapt_restart_threshold |-> Max(restart, stop) ]

\* The exponential moving average of _update_adaptation_gate.
next_error_smooth(self, error_rms) ==
    IF ~self.error_smooth_initialized
    THEN error_rms
    ELSE TruncDiv(self.error_ema_alpha * error_rms
                  + (ONE - self.error_ema_alpha) * self.error_smooth, ONE)

\* Variant of update_adaptation_gate that keeps counting across a block above
\* the stop threshold (the else-branch reset is lost).
update_adaptation_gate_noreset(self, error_rms) ==
    LET smooth == next_error_smooth(self, error_rms)
        s1 == [self EXCEPT !.error_smooth = smooth,
                           !.error_smooth_initialized = TRUE]
    IN  IF s1.adapt_enabled
        THEN IF smooth <= s1.adapt_stop_threshold
             THEN IF s1.adapt_hold + 1 >= s1.adapt_hold_frames
                  THEN [s1 EXCEPT !.adapt_enabled = FALSE, !.adapt_hold = 0]
                  ELSE [s1 EXCEPT !.adapt_hold = s1.adapt_hold + 1]
             ELSE s1
        ELSE IF smooth >= s1.adapt_restart_threshold
             THEN IF s1.adapt_hold + 1 >= s1.adapt_hold_frames
                  THEN [s1 EXCEPT !.adapt_enabled = TRUE, !.adapt_hold = 0]
                  ELSE [s1 EXCEPT !.adapt_hold = s1.adapt_hold + 1]
             ELSE [s1 EXCEPT !.adapt_hold = 0]

\* Variant of update_adaptation_gate that disables one block late
\* (the hold comparison is > instead of >=).
update_adaptation_gate_late(self, error_rms) ==
    LET smooth == next_error_smooth(self, error_rms)
        s1 == [self EXCEPT !.error_smooth = smooth,
                           !.error_smooth_initialized = TRUE]
    IN  IF s1.adapt_enabled
        THEN IF smooth <= s1.adapt_stop_threshold
             THEN IF s1.adapt_hold + 1 > s1.adapt_hold_frames
                  THEN [s1 EXCEPT !.adapt_enabled = FALSE, !.adapt_hold = 0]
                  ELSE [s1 EXCEPT !.adapt_hold = s1.adapt_hold + 1]
             ELSE [s1 EXCEPT !.adapt_hold = 0]
        ELSE IF smooth >= s1.adapt_restart_threshold
             THEN IF s1.adapt_hold + 1 >= s1.adapt_hold_frames
                  THEN [s1 EXCEPT !.adapt_enabled = TRUE, !.adapt_hold = 0]
                  ELSE [s1 EXCEPT !.adapt_hold = s1.adapt_hold + 1]
             ELSE [s1 EXCEPT !.adapt_hold = 0]

\* Variant of update_adaptation_gate whose transitions leave the hold counter
\* at the count that caused them.
update_adaptation_gate_keep(self, error_rms) ==
    LET smooth == next_error_smooth(self, error_rms)
        s1 == [self EXCEPT !.error_smooth = smooth,
                           !.error_smooth_initialized = TRUE]
    IN  IF s1.adapt_enabled
        THEN IF smooth <= s1.adapt_stop_threshold
             THEN IF s1.adapt_hold + 1 >= s1.adapt_hold_frames
                  THEN [s1 EXCEPT !.adapt_enabled = FALSE,
                                  !.adapt_hold = s1.adapt_hold + 1]
                  ELSE [s1 EXCEPT !.adapt_hold = s1.adapt_hold + 1]
             ELSE [s1 EXCEPT !.adapt_hold = 0]
        ELSE IF smooth >= s1.adapt_restart_threshold
             THEN IF s1.adapt_hold + 1 >= s1.adapt_hold_frames
                  THEN [s1 EXCEPT !.adapt_enabled = TRUE,
                                  !.adapt_hold = s1.adapt_hold + 1]
                  ELSE [s1 EXCEPT !.adapt_hold = s1.adapt_hold + 1]
             ELSE [s1 EXCEPT !.adapt_hold = 0]

\* Variant of update_adaptation_gate that re-enables on the first block at or
\* above the restart threshold, whatever the hold count.
update_adaptation_gate_eager(self, error_rms) ==
    LET smooth == next_error_smooth(self, error_rms)
        s1 == [self EXCEPT !.error_smooth = smooth,
                           !.error_smooth_initialized = TRUE]
    IN  IF s1.adapt_enabled
        THEN IF smooth <= s1.adapt_stop_threshold
             THEN IF s1.adapt_hold + 1 >= s1.adapt_hold_frames
                  THEN [s1 EXCEPT !.adapt_enabled = FALSE, !.adapt_hold = 0]
                  ELSE [s1 EXCEPT !.adapt_hold = s1.adapt_hold + 1]
             ELSE [s1 EXCEPT !.adapt_hold = 0]
        ELSE IF smooth >= s1.adapt_restart_threshold
             THEN [s1 EXCEPT !.adapt_enabled = TRUE, !.adapt_hold = 0]
             ELSE [s1 EXCEPT !.adapt_hold = 0]

\* FxLMSANC._update_adaptation_gate
update_adaptation_gate(self, error_rms) ==
    LET smooth == next_error_smooth(self, error_rms)
        s1 == [self EXCEPT !.error_smooth = smooth,
                           !.error_smooth_initialized = TRUE]
    IN  IF s1.adapt_enabled
        THEN IF smooth <= s1.adapt_stop_threshold
             THEN IF s1.adapt_hold + 1 >= s1.adapt_hold_frames
                  THEN [s1 EXCEPT !.adapt_enabled = FALSE, !.adapt_hold = 0]
                  ELSE [s1 EXCEPT !.adapt_hold = s1.adapt_hold + 1]
             ELSE [s1 EXCEPT !.adapt_hold = 0]
        ELSE IF smooth >= s1.adapt_restart_threshold
             THEN IF s1.adapt_hold + 1 >= s1.adapt_hold_frames
                  THEN [s1 EXCEPT !.adapt_enabled = TRUE, !.adapt_hold = 0]
                  ELSE [s1 EXCEPT !.adapt_hold = s1.adapt_hold + 1]
             ELSE [s1 EXCEPT !.adapt_hold = 0]
-----------------------------------------------------------------------------
(* FxLMSANC: construction and reset *)

\* MIN_REFERENCE_POWER = 1e-6, as a power (squared grid units), rounded up:
\* for an integer power p, p < MinReferencePower iff p / ONE^2 < 1e-6.
MinReferencePower == (ONE * ONE + 999999) \div 1000000

\* EPSILON = 1e-9 as a power (squared grid units); it is below the grid.
EpsilonPower == (ONE * ONE) \div 1000000000

\* EPSILON = 1e-9 on the grid.
EPSILON == ONE \div 1000000000

\* FxLMSANC._reset_state
reset_state(self) ==
    [self EXCEPT
        !.weights = Zeros(self.filter_length),
        !.ref_history = Zeros(self.filter_length),
        !.sec_history = Zeros(Len(self.secondary_path)),
        !.fx_history = Zeros(self.filter_length),
        !.reference_index = 0,
        !.frame_index = 0,
        !.reference_lowpass_state = 0,
        !.adapt_enabled = TRUE,
        !.error_smooth = 0,
        !.error_smooth_initialized = FALSE,
        !.adapt_hold = 0]

\* FxLMSANC.__init__: c holds the constructor arguments; numba tells whether
\* the object is a NumbaFxLMSANC.  live_reference is
\* reference_channel_index is not None; reference_signal is the decoded file
\* (block_size zeros for a live reference); reference_lowpass_alpha is the
\* coefficient _configure_reference_lowpass derives (-1 stands for None).
FxLMSANC(c) ==
    LET g == GateConfig(c.error_ema_alpha, c.adapt_hold_frames,
                        c.stop_threshold, c.restart_threshold)
    IN  [ numba                    |-> c.numba,
          block_size               |-> c.block_size,
          filter_length            |-> c.filter_length,
          base_step_size           |-> c.step_size,
          leakage                  |-> c.leakage,
          play_reference           |-> c.play_reference,
          split_reference_channels |-> c.split_reference_channels,
          control_output_gain      |-> c.control_output_gain,
          control_output_channel   |-> 0,
          manual_gain_mode         |-> c.manual_gain_mode,
          manual_gain              |-> c.manual_gain,
          reference_lowpass_alpha  |-> c.reference_lowpass_alpha,
          live_reference           |-> c.live_reference,
          reference_signal         |-> IF c.live_reference
                                       THEN Zeros(c.block_size)
                                       ELSE c.reference_signal,
          secondary_path           |-> c.secondary_path,
          error_ema_alpha          |-> g.error_ema_alpha,
          adapt_hold_frames        |-> g.adapt_hold_frames,
          adapt_stop_threshold     |-> g.adapt_stop_threshold,
          adapt_restart_threshold  |-> g.adapt_restart_threshold,
          stop_requested           |-> FALSE,
          weights                  |-> Zeros(c.filter_length),
          ref_history              |-> Zeros(c.filter_length),
          sec_history              |-> Zeros(Len(c.secondary_path)),
          fx_history               |-> Zeros(c.filter_length),
          reference_index          |-> 0,
          frame_index              |-> 0,
          reference_lowpass_state  |-> 0,
          adapt_enabled            |-> TRUE,
          error_smooth             |-> 0,
          error_smooth_initialized |-> FALSE,
          adapt_hold               |-> 0 ]

-----------------------------------------------------------------------------
(* FxLMSANC: reference source and low-pass *)

\* Python slice s[start:end] of a sequence (0-based, end clamped to the length).
Slice(s, start, end) == SubSeq(s, start + 1, Min(end, Len(s)))

\* np.pad left out: the short block is returned as it is.
PadTo_off(block, n) == block

\* np.pad(block, (0, n - len(block)))
PadTo(block, n) == block \o Zeros(n - Len(block))

\* _next_reference_block(loop=False) for a file reference:
\* the block returned and the new reference_index.
next_reference_block_noloop(self) ==
    LET start == self.reference_index
        end   == start + self.block_size
        sig   == self.reference_signal
        block == Slice(sig, start, end)
    IN  IF start >= Len(sig)
        THEN [block |-> Zeros(self.block_size), index |-> start]
        ELSE IF Len(block) < self.block_size
             THEN [block |-> PadTo(block, self.block_size), index |-> Len(sig)]
             ELSE [block |-> block, index |-> end]

\* FxLMSANC._next_reference_block for a file reference.
next_reference_block(self, loop) ==
    LET start == self.reference_index
        end   == start + self.block_size
        sig   == self.reference_signal
        block == Slice(sig, start, end)
        rewound == [self EXCEPT !.reference_index = 0]
    IN  IF ~loop
        THEN next_reference_block_noloop(self)
        ELSE IF start >= Len(sig)
             THEN next_reference_block_noloop(rewound)
             ELSE IF Len(block) < self.block_size
                  THEN LET remaining == self.block_size - Len(block)
                           inner == next_reference_block_noloop(rewound)
                       IN  [block |-> block \o Slice(inner.block, 0, remaining),
                            index |-> remaining]
                  ELSE [block |-> block, index |-> end]

RECURSIVE lowpass_run(_, _, _)
\* The loop of _apply_reference_lowpass: the filtered samples, last element
\* of the result being the final state.
lowpass_run(alpha, state, block) ==
    IF block = <<>> THEN <<>>
    ELSE LET s1 == state + Mul(alpha, Head(block) - state)
         IN  <<s1>> \o lowpass_run(alpha, s1, Tail(block))

\* The low-pass restarting from a zero state on every block.
apply_reference_lowpass_restart(self, block) ==
    IF self.reference_lowpass_alpha < 0 \/ block = <<>>
    THEN [block |-> block, state |-> self.reference_lowpass_state]
    ELSE LET f == lowpass_run(self.reference_lowpass_alpha, 0, block)
         IN  [block |-> f, state |-> f[Len(f)]]

\* FxLMSANC._apply_reference_lowpass: the filtered block and the new state.
apply_reference_lowpass(self, block) ==
    IF self.reference_lowpass_alpha < 0 \/ block = <<>>
    THEN [block |-> block, state |-> self.reference_lowpass_state]
    ELSE LET f == lowpass_run(self.reference_lowpass_alpha,
                              self.reference_lowpass_state, block)
         IN  [block |-> f, state |-> f[Len(f)]]

-----------------------------------------------------------------------------
(* FxLMSANC: synthesis and weight update *)

\* h[1:] = h[:-1]; h[0] = x
Shift(h, x) == IF Len(h) = 0 THEN h ELSE <<x>> \o SubSeq(h, 1, Len(h) - 1)

RECURSIVE synthesize_run(_, _)
\* The per-sample loop of _synthesize_block over the rest of the block: s holds
\* the three histories and the outputs accumulated so far.
synthesize_run(s, block) ==
    IF block = <<>> THEN s
    ELSE LET x_n  == Head(block)
             rh   == Shift(s.ref_history, x_n)
             y    == Dot(s.weights, rh)
             sh   == Shift(s.sec_history, x_n)
             filtered_sample == Dot(s.secondary_path, sh)
             fh   == Shift(s.fx_history, filtered_sample)
         IN  synthesize_run(
                 [s EXCEPT !.ref_history = rh, !.sec_history = sh,
                           !.fx_history = fh,
                           !.anti_noise = Append(s.anti_noise, y),
                           !.fx_vectors = Append(s.fx_vectors, fh)],
                 Tail(block))

\* FxLMSANC._synthesize_block: anti_noise, fx_vectors and the histories after.
synthesize_block(self, ref_block) ==
    synthesize_run(
        [ weights |-> self.weights, secondary_path |-> self.secondary_path,
          ref_history |-> self.ref_history, sec_history |-> self.sec_history,
          fx_history |-> self.fx_history,
          anti_noise |-> <<>>, fx_vectors |-> <<>> ],
        ref_block)

\* One sample of the loop of _update_weights, with the skip test removed.
lms_step_noskip(w, e, fx, step, leak) ==
    LET power == SumSq(fx)
        leaked == IF leak > 0
                  THEN [j \in 1..Len(w) |-> Mul(w[j], ONE - leak)]
                  ELSE w
    IN  [j \in 1..Len(w) |->
            leaked[j] + (IF power + EpsilonPower = 0 THEN 0
                         ELSE TruncDiv(step * e * fx[j], power + EpsilonPower))]

\* One sample of the loop of _update_weights (lines 604-612): skip when the
\* filtered-reference power is below MIN_REFERENCE_POWER, else leak and step.
lms_step(w, e, fx, step, leak) ==
    LET power == SumSq(fx)
        leaked == IF leak > 0
                  THEN [j \in 1..Len(w) |-> Mul(w[j], ONE - leak)]
                  ELSE w
    IN  IF power < MinReferencePower
        THEN w
        ELSE [j \in 1..Len(w) |->
                leaked[j] + TruncDiv(step * e * fx[j], power + EpsilonPower)]

RECURSIVE lms_run(_, _, _, _, _)
\* for e, fx in zip(error_block, fx_vectors): ...
lms_run(w, error_block, fx_vectors, step, leak) ==
    IF error_block = <<>> \/ fx_vectors = <<>> THEN w
    ELSE lms_run(lms_step(w, Head(error_block), Head(fx_vectors), step, leak),
                 Tail(error_block), Tail(fx_vectors), step, leak)

\* The norm guard with the rescaling lost.
clip_norm_off(w) == w

\* norm = ||w||; if norm > MAX_NORM: w *= MAX_NORM / max(norm, EPSILON)
\* (lines 614-616).  The norm is rounded up to the grid.
clip_norm(w) ==
    LET sq == SumSq(w)
    IN  IF sq > MAX_NORM * MAX_NORM
        THEN [j \in 1..Len(w) |->
                TruncDiv(w[j] * MAX_NORM, Max(CeilSqrt(sq), EPSILON))]
        ELSE w

\* One sample of the loop of _update_weights_numba (lines 89-108): the same
\* skip and leakage, the gradient term subtracted.
lms_step_numba(w, e, fx, step, leak) ==
    LET power == SumSq(fx)
        leaked == IF leak > 0
                  THEN [j \in 1..Len(w) |-> Mul(w[j], ONE - leak)]
                  ELSE w
    IN  IF power < MinReferencePower
        THEN w
        ELSE [j \in 1..Len(w) |->
                leaked[j] - TruncDiv(step * e * fx[j], power + EpsilonPower)]

RECURSIVE lms_run_numba(_, _, _, _, _)
\* for i in range(n_frames): ...
lms_run_numba(w, error_block, fx_vectors, step, leak) ==
    IF error_block = <<>> \/ fx_vectors = <<>> THEN w
    ELSE lms_run_numba(
             lms_step_numba(w, Head(error_block), Head(fx_vectors), step, leak),
             Tail(error_block), Tail(fx_vectors), step, leak)

\* FxLMSANC._update_weights, and NumbaFxLMSANC._update_weights for the Numba
\* variant (whose norm guard, lines 110-117, is the same computation).
update_weights(self, error_block, fx_vectors) ==
    IF self.numba
    THEN clip_norm(lms_run_numba(self.weights, error_block, fx_vectors,
                                 self.base_step_size, self.leakage))
    ELSE clip_norm(lms_run(self.weights, error_block, fx_vectors,
                           self.base_step_size, self.leakage))
-----------------------------------------------------------------------------
(* FxLMSANC.run: the audio callback *)

\* A buffer of `frames` frames and `channels` channels holding v everywhere;
\* outdata[c][i] is sample i of channel c - 1.
Filled(channels, frames, v) == [c \in 1..channels |-> [i \in 1..frames |-> v]]

\* run(): 2 if split_reference_channels else max(1, control_output_channel + 1)
control_channels(self) ==
    IF self.split_reference_channels THEN 2
    ELSE Max(1, self.control_output_channel + 1)

\* The AncMetrics the callback publishes (lines 494-504).
AncMetrics(self, error_rms, reference_block, out) ==
    [ frame_index   |-> self.frame_index,
      error_rms     |-> error_rms,
      step_size     |-> self.base_step_size,
      reference_rms |-> Rms(reference_block),
      output_rms    |-> Rms(out[self.control_output_channel + 1]) ]

\* The output block of the callback (lines 474-486): what is written to
\* outdata from the reference block and the scaled anti-noise.
write_outdata(self, reference_block, scaled_anti_noise) ==
    LET n == Len(scaled_anti_noise)
        mix == self.play_reference /\ ~self.live_reference
    IN  IF self.split_reference_channels
        THEN << [i \in 1..n |-> Clip(IF mix THEN reference_block[i] ELSE 0,
                                     -ONE, ONE)],
                [i \in 1..n |-> Clip(scaled_anti_noise[i], -ONE, ONE)] >>
        ELSE << [i \in 1..n |->
                    Clip(IF mix THEN reference_block[i] + scaled_anti_noise[i]
                                ELSE scaled_anti_noise[i], -ONE, ONE)] >>

\* The end of audio_callback without the test for the end of the file.
callback_finish_noend(s4, r, weights, fx_vectors, error_rms, reference_block, out) ==
    [ anc |-> [s4 EXCEPT !.frame_index = s4.frame_index + 1],
      outdata |-> out,
      run |-> [r EXCEPT
                 !.metrics_queue =
                     IF r.metrics_on
                     THEN Append(r.metrics_queue,
                                 AncMetrics(s4, error_rms, reference_block, out))
                     ELSE r.metrics_queue,
                 !.last_cb = "processed",
                 !.cb_weights = weights,
                 !.cb_fx_vectors = fx_vectors] ]

\* The end of audio_callback (lines 494-514) for the controller s4 left by the
\* weight update: the metrics, frame_index and the end of a file reference.
\* weights are the weights the callback found on entry.
callback_finish(s4, r, weights, fx_vectors, error_rms, reference_block, out) ==
    LET s5 == [s4 EXCEPT !.frame_index = s4.frame_index + 1]
        ended == ~s4.live_reference /\ ~r.loop_reference
                 /\ s4.reference_index >= Len(s4.reference_signal)
    IN  [ anc |-> [s5 EXCEPT !.stop_requested = ended \/ s4.stop_requested],
          outdata |-> out,
          run |-> [r EXCEPT
                     !.metrics_queue =
                         IF r.metrics_on
                         THEN Append(r.metrics_queue,
                                     AncMetrics(s4, error_rms, reference_block, out))
                         ELSE r.metrics_queue,
                     !.last_cb = "processed",
                     !.cb_weights = weights,
                     !.cb_fx_vectors = fx_vectors,
                     !.stream = IF ended THEN "finished" ELSE r.stream] ]

\* The weight update of audio_callback without the test of adapt_enabled.
callback_update_nogate(s3, r, indata_err, fx_vectors, error_rms, reference_block, out) ==
    callback_finish(
        IF ~s3.manual_gain_mode
        THEN [s3 EXCEPT !.weights = update_weights(s3, indata_err, fx_vectors)]
        ELSE s3,
        r, s3.weights, fx_vectors, error_rms, reference_block, out)

\* The weight update of audio_callback (lines 491-492) for the controller s3
\* left by the gate.
callback_update(s3, r, indata_err, fx_vectors, error_rms, reference_block, out) ==
    callback_finish(
        IF ~s3.manual_gain_mode /\ s3.adapt_enabled
        THEN [s3 EXCEPT !.weights = update_weights(s3, indata_err, fx_vectors)]
        ELSE s3,
        r, s3.weights, fx_vectors, error_rms, reference_block, out)

\* The output and the gate of audio_callback (lines 464-489) once the
\* low-passed block lp and the synthesis syn of it are known.
callback_output(self, r, indata_err, nxt, lp, syn) ==
    LET anti_noise_block ==
            IF self.manual_gain_mode
            THEN [i \in 1..Len(lp.block) |-> Mul(self.manual_gain, lp.block[i])]
            ELSE syn.anti_noise
        scaled_anti_noise ==
            [i \in 1..Len(lp.block) |->
                Mul(anti_noise_block[i], self.control_output_gain)]
        s2 == IF self.manual_gain_mode
              THEN [self EXCEPT !.reference_index = nxt.index,
                                !.reference_lowpass_state = lp.state]
              ELSE [self EXCEPT !.reference_index = nxt.index,
                                !.reference_lowpass_state = lp.state,
                                !.ref_history = syn.ref_history,
                                !.sec_history = syn.sec_history,
                                !.fx_history = syn.fx_history]
    IN  callback_update(
            update_adaptation_gate(s2, Rms(indata_err)), r, indata_err,
            IF self.manual_gain_mode THEN <<>> ELSE syn.fx_vectors,
            Rms(indata_err), nxt.block,
            write_outdata(self, nxt.block, scaled_anti_noise))

\* adapt_block = self._apply_reference_lowpass(reference_block) and
\* self._synthesize_block(adapt_block) (lines 463-468).
callback_synthesize(self, r, indata_err, nxt, lp) ==
    callback_output(self, r, indata_err, nxt, lp, synthesize_block(self, lp.block))

\* The callback from the reference block on (lines 456-514); nxt is the block
\* and the reference_index after fetching it.
callback_process(self, r, indata_err, nxt) ==
    callback_synthesize(self, r, indata_err, nxt,
                        apply_reference_lowpass(self, nxt.block))

\* The callback without the test of the frame count: a block of any size is
\* processed.
audio_callback_anysize(self, r, frames, indata_ref, indata_err, uninit) ==
    IF self.stop_requested
    THEN [ anc |-> self,
           outdata |-> Filled(control_channels(self), frames, uninit),
           run |-> [r EXCEPT !.stream = "finished", !.last_cb = "stopped"] ]
    ELSE callback_process(
             self, r, indata_err,
             IF self.live_reference
             THEN [block |-> indata_ref, index |-> self.reference_index]
             ELSE next_reference_block(self, r.loop_reference))

\* audio_callback of FxLMSANC.run (lines 447-514).  r is the run() state,
\* indata_ref / indata_err the reference and error channels of indata, and
\* uninit the content of the driver's output buffer on entry.  The result is
\* the controller, the output buffer and the run() state after the call;
\* last_cb records how the call ended and, for a processed block, cb_weights
\* and cb_fx_vectors record the weights on entry and the local fx_vectors.
audio_callback(self, r, frames, indata_ref, indata_err, uninit) ==
    IF self.stop_requested
    THEN \* raise sd.CallbackStop: outdata is left as the driver handed it over
         [ anc |-> self,
           outdata |-> Filled(control_channels(self), frames, uninit),
           run |-> [r EXCEPT !.stream = "finished", !.last_cb = "stopped"] ]
    ELSE IF frames # self.block_size
    THEN [ anc |-> self,
           outdata |-> Filled(control_channels(self), frames, 0),
           run |-> [r EXCEPT !.last_cb = "wrong_size"] ]
    ELSE callback_process(
             self, r, indata_err,
             IF self.live_reference
             THEN [block |-> indata_ref, index |-> self.reference_index]
             ELSE next_reference_block(self, r.loop_reference))

-----------------------------------------------------------------------------
(* Inputs and configurations *)

Const(n, v) == [i \in 1..n |-> v]

Alt(n, v) == [i \in 1..n |-> IF i % 2 = 1 THEN v ELSE -v]

\* Reference blocks a live reference microphone delivers.
RefBlocks(n) == { Const(n, 0), Const(n, ONE), Alt(n, ONE \div 2) }

\* Error-microphone blocks.
ErrBlocks(n) == { Const(n, 0), Alt(n, ONE) }

\* Contents of a driver buffer the callback has not written.
Uninit == { 0, 3 * ONE }

\* Error-RMS levels fed to the gate on its own: below, at and above the
\* default thresholds.
RmsLevels == { 0, DEFAULT_STOP_THRESHOLD \div 2, DEFAULT_STOP_THRESHOLD,
               DEFAULT_STOP_THRESHOLD + DEFAULT_STOP_THRESHOLD \div 2,
               DEFAULT_RESTART_THRESHOLD + DEFAULT_STOP_THRESHOLD \div 2 }

\* The default secondary path of the constructor: a delta of 8 taps.
DeltaPath == [i \in 1..8 |-> IF i = 1 THEN ONE ELSE 0]

\* Constructor arguments of the baseline controller: a live reference taken
\* from the record stream, no output gain, gate with unit EMA factor.
BaseArgs ==
    [ numba |-> FALSE,
      block_size |-> BlockSize, filter_length |-> FilterLen,
      step_size |-> ONE \div 10, leakage |-> 0,
      play_reference |-> FALSE, split_reference_channels |-> FALSE,
      control_output_gain |-> ONE,
      manual_gain_mode |-> FALSE, manual_gain |-> 0,
      reference_lowpass_alpha |-> -1,
      live_reference |-> TRUE, reference_signal |-> <<>>,
      secondary_path |-> DeltaPath,
      error_ema_alpha |-> ONE, adapt_hold_frames |-> 2,
      stop_threshold |-> DEFAULT_STOP_THRESHOLD,
      restart_threshold |-> DEFAULT_RESTART_THRESHOLD ]

\* Adaptation configurations: step size, leakage, the Numba variant and the
\* secondary path vary.
AdaptArgs ==
    { [BaseArgs EXCEPT !.step_size = st, !.leakage = lk, !.numba = nu] :
        st \in {ONE \div 10, ONE}, lk \in {0, ONE \div 10}, nu \in BOOLEAN }
    \cup { [BaseArgs EXCEPT !.step_size = ONE,
                            !.secondary_path = <<ONE \div 2, ONE \div 2>>] }

\* A controller on a looping or finite file reference of three samples.
FileArgs ==
    [BaseArgs EXCEPT !.live_reference = FALSE,
                     !.reference_signal = <<ONE, -ONE, ONE \div 2>>,
                     !.step_size = ONE]

\* Output-routing configurations on a file reference: reference mixing, split
\* channels, output gain and manual-gain mode vary; two more run the
\* reference low-pass.
RoutingArgs ==
    { [FileArgs EXCEPT !.play_reference = pr,
                       !.split_reference_channels = sc,
                       !.control_output_gain = gn,
                       !.manual_gain_mode = mg,
                       !.manual_gain = -4 * ONE] :
        pr \in BOOLEAN, sc \in BOOLEAN, gn \in {ONE, 2 * ONE}, mg \in BOOLEAN }
    \cup { [FileArgs EXCEPT !.reference_lowpass_alpha = ONE \div 2,
                            !.manual_gain_mode = mg,
                            !.manual_gain = -4 * ONE] : mg \in BOOLEAN }

\* Gate configurations: the constructor's EMA factor, hold count and restart
\* threshold (also one below the stop threshold) vary.
GateArgs ==
    { [BaseArgs EXCEPT !.error_ema_alpha = al, !.adapt_hold_frames = hf,
                       !.restart_threshold = rt] :
        al \in {ONE, ONE \div 2, DEFAULT_ERROR_EMA_ALPHA},
        hf \in 0..MaxHold,
        rt \in {DEFAULT_STOP_THRESHOLD \div 2, DEFAULT_RESTART_THRESHOLD} }

\* run() state before any stream exists.
RunIdle ==
    [ stream |-> "none", last_cb |-> "none", cb_weights |-> <<>>,
      cb_fx_vectors |-> <<>>, loop_reference |-> FALSE,
      metrics_on |-> FALSE, metrics_queue |-> <<>>, delivered |-> <<>>,
      max_duration |-> 0, elapsed |-> 0, pc |-> "idle", interrupted |-> FALSE,
      expired |-> FALSE, mutex |-> "free", cb_pending |-> <<>>,
      play_stream |-> "none", play_idx |-> 0, play_stop |-> FALSE,
      play_loop |-> FALSE, config_error |-> "none", streams_at_error |-> 0 ]

\* The zero-crossing runner while it is not running.
NbIdle == [ on |-> FALSE ]

DrvIdle == [ on |-> FALSE ]

-----------------------------------------------------------------------------
(* SpecGate: the adaptation gate driven by arbitrary error-RMS sequences *)

InitGate ==
    /\ anc \in { FxLMSANC(c) : c \in GateArgs }
    /\ rms_log = <<>>
    /\ outdata = <<>>
    /\ nb = NbIdle
    /\ drv = DrvIdle
    /\ run = RunIdle

\* One block's call of _update_adaptation_gate with error RMS r.
GateFeed ==
    /\ Len(rms_log) < MaxLog
    /\ \E r \in RmsLevels :
          /\ anc' = update_adaptation_gate(anc, r)
          /\ rms_log' = Append(rms_log, r)
    /\ UNCHANGED <<outdata, nb, drv, run>>

\* _reset_state, as run() calls it when a session starts.
GateResetState ==
    /\ rms_log # <<>>
    /\ anc' = reset_state(anc)
    /\ rms_log' = <<>>
    /\ UNCHANGED <<outdata, nb, drv, run>>

NextGate == GateFeed \/ GateResetState

SpecGate == InitGate /\ [][NextGate]_vars
-----------------------------------------------------------------------------
(* Properties of the adaptation gate (SpecGate) *)

\* Every error RMS fed since the reset is the same value, below stop_threshold.
ConstantBelowStop ==
    /\ rms_log # <<>>
    /\ \A i \in 1..Len(rms_log) : rms_log[i] = rms_log[1]
    /\ rms_log[1] < anc.adapt_stop_threshold

\* C5: from a freshly reset gate fed a constant error RMS below
\* stop_threshold, adaptation is still enabled after fewer than hold_frames
\* blocks and is disabled from the hold_frames-th block on: the switch to
\* disabled happens on exactly the hold_frames-th block.
C5_GateDisableTiming ==
    ConstantBelowStop =>
        (anc.adapt_enabled <=> Len(rms_log) < anc.adapt_hold_frames)

\* The gate has just disabled on the hold_frames-th constant block (hold >= 2).
C5_Witness ==
    /\ ConstantBelowStop
    /\ anc.adapt_hold_frames >= 2
    /\ Len(rms_log) = anc.adapt_hold_frames
    /\ ~anc.adapt_enabled

\* A step that feeds one block to the gate.
GateFedStep == Len(rms_log') = Len(rms_log) + 1

\* C6 as stated: while the gate is enabled and counting, a block whose error
\* RMS is above stop_threshold resets the hold counter to zero.
C6_RawRmsResets ==
    [][ (/\ GateFedStep
         /\ anc.adapt_enabled
         /\ anc.adapt_hold > 0
         /\ rms_log'[Len(rms_log')] > anc.adapt_stop_threshold)
        => anc'.adapt_hold = 0 ]_vars

\* C6 amended: while the gate is enabled, a block after which the smoothed
\* error (the EMA) is above stop_threshold leaves the gate enabled with the
\* hold counter at zero; the counter grows by at most one per block and the
\* gate disables only on a block that finds it at hold_frames - 1, so the full
\* count starts again after such a block.
C6_SmoothedResets ==
    [][ GateFedStep =>
          /\ (anc.adapt_enabled /\ anc'.error_smooth > anc.adapt_stop_threshold)
                => (anc'.adapt_enabled /\ anc'.adapt_hold = 0)
          /\ anc'.adapt_hold <= anc.adapt_hold + 1
          /\ (anc.adapt_enabled /\ ~anc'.adapt_enabled)
                => anc.adapt_hold = anc.adapt_hold_frames - 1 ]_vars

\* The gate counted one block below the threshold and the second block, with
\* smoothed error above it, has reset the counter.
C6_Witness ==
    /\ Len(rms_log) = 2
    /\ anc.adapt_hold_frames >= 2
    /\ rms_log[1] <= anc.adapt_stop_threshold
    /\ anc.error_smooth > anc.adapt_stop_threshold
    /\ anc.adapt_enabled
    /\ anc.adapt_hold = 0
-----------------------------------------------------------------------------
(* SpecFx: an FxLMS session driven block by block *)

\* run() state once the duplex stream has been started.
RunStarted(loop, metrics, duration) ==
    [RunIdle EXCEPT !.stream = "active", !.pc = "loop",
                    !.loop_reference = loop, !.metrics_on = metrics,
                    !.max_duration = duration]

InitFx ==
    /\ \/ /\ anc \in { FxLMSANC(c) : c \in AdaptArgs }
          /\ run = RunStarted(FALSE, FALSE, 0)
       \/ /\ anc \in { FxLMSANC(c) : c \in RoutingArgs }
          /\ run \in { RunStarted(loop, FALSE, 0) : loop \in BOOLEAN }
    /\ rms_log = <<>>
    /\ outdata = <<>>
    /\ nb = NbIdle
    /\ drv = DrvIdle

\* The audio driver invokes audio_callback with one block of input.
FxCallback ==
    /\ ~nb.on
    /\ run.stream = "active"
    /\ anc.frame_index < MaxBlocks
    /\ \E frames \in {anc.block_size, anc.block_size - 1},
          ref \in IF anc.live_reference THEN RefBlocks(anc.block_size)
                                        ELSE {Zeros(anc.block_size)},
          err \in ErrBlocks(anc.block_size),
          uninit \in IF anc.stop_requested THEN Uninit ELSE {0} :
          \E res \in {audio_callback(anc, run, frames, ref, err, uninit)} :
              /\ anc' = res.anc
              /\ outdata' = res.outdata
              /\ run' = res.run
    /\ UNCHANGED <<rms_log, nb, drv>>

\* FxLMSANC.stop, called from any thread.
FxStop ==
    /\ ~nb.on
    /\ run.stream = "active"
    /\ ~anc.stop_requested
    /\ anc' = [anc EXCEPT !.stop_requested = TRUE]
    /\ UNCHANGED <<rms_log, outdata, nb, drv, run>>

NextFx == FxCallback \/ FxStop

SpecFx == InitFx /\ [][NextFx]_vars
-----------------------------------------------------------------------------
(* Properties of the FxLMS weight update (SpecFx) *)

\* C1: after any sequence of processed blocks the squared L2 norm of the
\* weights is at most MAX_NORM squared, for the base and the Numba update.
C1_WeightNormBounded == SumSq(anc.weights) <= MAX_NORM * MAX_NORM

\* A processed block left the weights rescaled onto the norm bound (within the
\* rounding of the grid).
C1_Witness ==
    /\ run.last_cb = "processed"
    /\ anc.frame_index >= 1
    /\ SumSq(anc.weights) > (MAX_NORM - 5) * (MAX_NORM - 5)

\* The reference blocks the next callback can meet in the current state.
NextRefBlocks ==
    IF anc.live_reference THEN RefBlocks(anc.block_size)
    ELSE { next_reference_block(anc, run.loop_reference).block }

\* Every filtered-reference vector of the sequence has power below
\* MIN_REFERENCE_POWER.
AllBelowMinPower(fx_vectors) ==
    \A i \in 1..Len(fx_vectors) : SumSq(fx_vectors[i]) < MinReferencePower

\* C4: a processed block whose filtered-reference vectors all have power below
\* MIN_REFERENCE_POWER leaves the weights exactly as they were on entry; and in
\* every reachable state, for every next block of that kind, _update_weights
\* returns the weights unchanged whatever the error block, step size and
\* leakage (no leakage, no gradient step, and the norm guard changes nothing).
C4_SilenceKeepsWeights ==
    /\ (/\ run.last_cb = "processed"
        /\ ~anc.manual_gain_mode
        /\ AllBelowMinPower(run.cb_fx_vectors))
       => anc.weights = run.cb_weights
    /\ \A ref \in NextRefBlocks, err \in ErrBlocks(anc.block_size) :
          LET syn == synthesize_block(anc, apply_reference_lowpass(anc, ref).block)
          IN  AllBelowMinPower(syn.fx_vectors)
              => update_weights(anc, err, syn.fx_vectors) = anc.weights

\* A block with every filtered-reference vector silent has just been processed
\* with adaptation enabled, a non-zero error, leakage configured and non-zero
\* weights.
C4_Witness ==
    /\ run.last_cb = "processed"
    /\ ~anc.manual_gain_mode
    /\ AllBelowMinPower(run.cb_fx_vectors)
    /\ anc.adapt_enabled
    /\ anc.error_smooth > 0
    /\ anc.leakage > 0
    /\ anc.weights # Zeros(anc.filter_length)
-----------------------------------------------------------------------------
(* Zero-crossing runner: _smart_anc_process *)

\* Program constants of enhanced_ANC/config.py.  Times are in clock ticks,
\* FREEZE_RELATIVE_DROP in percent, error levels of the monitor loop in
\* millionths (the unit of FREEZE_BASELINE_MIN_ERR).
STEP_SIZE == (5 * ONE) \div 1000
LEAKAGE == ONE \div 1000000
WEIGHT_UPDATE_SIGN == -1
BASELINE_MEASURE_SECONDS == 1 * TicksPerSecond
FREEZE_RELATIVE_DROP == 15
FREEZE_MIN_SECONDS == 2 * TicksPerSecond
FREEZE_BASELINE_MIN_ERR == 1
REFERENCE_SAMPLE_RATE == 48000

\* float("inf") as the initial best_err.
Inf == 2000000000

\* Frequencies are held in hundredths of a hertz.
FreqOne == 100

\* pi and 2*pi in thousandths of a radian (the grid of the phase accumulator).
PI == 3141

TWO_PI == 6283

\* math.sin on [0, pi], by Bhaskara's rational approximation
\* 16 x (pi - x) / (5 pi^2 - 4 x (pi - x)), clipped to [0, 1].
SinHalf(x) ==
    LET p == x * (PI - x)
        d == 5 * PI * PI - 4 * p
    IN  Clip(TruncDiv(16 * (p \div 100) * ONE, d \div 100), 0, ONE)

\* math.sin of a phase x >= 0 held in thousandths of a radian.
Sin(x) ==
    LET y == x % TWO_PI
    IN  IF y <= PI THEN SinHalf(y) ELSE -SinHalf(Min(y - PI, PI))

\* math.cos of a phase x >= 0 held in thousandths of a radian.
Cos(x) == Sin(x + PI \div 2)

\* One sample of the loop of _smart_anc_process (lines 100-150): st holds the
\* loaded state and the output samples written so far.
smart_anc_sample(st, ref_sample, err_sample, sample_rate, step_size, leakage) ==
    LET crossing == \/ (ref_sample >= 0 /\ st.prev_ref < 0)
                    \/ (ref_sample < 0 /\ st.prev_ref >= 0)
        valid == crossing /\ st.samples_since > 1
        freq_est == IF valid
                    THEN TruncDiv(sample_rate * FreqOne, 2 * st.samples_since)
                    ELSE 0
        freq_hz == IF valid /\ 50 * FreqOne < freq_est /\ freq_est < 1000 * FreqOne
                   THEN TruncDiv(9 * st.freq_hz + freq_est, 10)
                   ELSE st.freq_hz
        samples_since == IF valid THEN 0 ELSE st.samples_since
        omega == TruncDiv(TWO_PI * freq_hz, sample_rate * FreqOne)
        ref_sin == Sin(st.phase)
        ref_cos == Cos(st.phase)
        anti_noise == Mul(st.wa, ref_sin) + Mul(st.wb, ref_cos)
        wa1 == st.wa + WEIGHT_UPDATE_SIGN * Mul(Mul(step_size, err_sample), ref_sin)
        wb1 == st.wb + WEIGHT_UPDATE_SIGN * Mul(Mul(step_size, err_sample), ref_cos)
        phase1 == st.phase + omega
    IN  [ prev_ref |-> ref_sample,
          phase |-> IF phase1 > TWO_PI THEN phase1 - TWO_PI ELSE phase1,
          samples_since |-> samples_since + 1,
          freq_hz |-> freq_hz,
          wa |-> Mul(wa1, ONE - leakage),
          wb |-> Mul(wb1, ONE - leakage),
          out |-> Append(st.out, Clip(anti_noise, -ONE, ONE)) ]

RECURSIVE smart_anc_run(_, _, _, _, _, _)
\* for i in range(n): ...
smart_anc_run(st, ref_block, err_block, sample_rate, step_size, leakage) ==
    IF ref_block = <<>> THEN st
    ELSE smart_anc_run(
             smart_anc_sample(st, Head(ref_block), Head(err_block),
                              sample_rate, step_size, leakage),
             Tail(ref_block), Tail(err_block), sample_rate, step_size, leakage)

\* _smart_anc_process: the new `state` array (slots 0-8) and out_block.
smart_anc_process(ref_block, err_block, state, sample_rate, step_size, leakage) ==
    LET fin == smart_anc_run(
                   [ prev_ref |-> state.prev_ref, phase |-> state.phase,
                     samples_since |-> state.samples_since,
                     freq_hz |-> state.freq_hz, wa |-> state.wa,
                     wb |-> state.wb, out |-> <<>> ],
                   ref_block, err_block, sample_rate, step_size, leakage)
    IN  [ state |-> [ prev_ref |-> fin.prev_ref, phase |-> fin.phase,
                      samples_since |-> fin.samples_since,
                      freq_hz |-> fin.freq_hz, wa |-> fin.wa, wb |-> fin.wb,
                      ref_rms |-> Rms(ref_block), err_rms |-> Rms(err_block),
                      out_rms |-> Rms(fin.out) ],
          out_block |-> fin.out ]
-----------------------------------------------------------------------------
(* Zero-crossing runner: run_auto_anc *)

\* float(state[7]) as the monitor loop compares it: in millionths.
ErrMicro(v) == TruncDiv(v * 1000000, ONE)

\* state = np.zeros(9); state[3] = 200.0; state[2] = 100.0
InitialState ==
    [ prev_ref |-> 0, phase |-> 0, samples_since |-> 100,
      freq_hz |-> 200 * FreqOne, wa |-> 0, wb |-> 0,
      ref_rms |-> 0, err_rms |-> 0, out_rms |-> 0 ]

\* The module configuration and the buffers of run_auto_anc before the
\* stream starts.  `inputs` names the family of signals the devices deliver.
ZcRunner(c) ==
    [ on |-> TRUE, inputs |-> c.inputs, levels |-> c.levels,
      BLOCK_SIZE |-> BlockSize,
      STEP_SIZE |-> c.STEP_SIZE, LEAKAGE |-> c.LEAKAGE,
      CONTROL_OUTPUT_CHANNEL |-> c.CONTROL_OUTPUT_CHANNEL,
      state |-> InitialState, out_buf |-> Zeros(BlockSize), blocks |-> 0 ]

\* The locals of run_auto_anc before the monitor loop (lines 195-267).
\* baseline_err and anc_enabled_at are -1 while None; freezes counts the
\* "Freezing adaptation" log lines.
ZcDriver(c) ==
    LET baseline_duration == Max(0, c.BASELINE_MEASURE_SECONDS)
        baseline_active == baseline_duration > 0
    IN  [ on |-> TRUE, FREEZE_ADAPTATION |-> c.FREEZE_ADAPTATION,
          baseline_duration |-> baseline_duration,
          baseline_active |-> baseline_active,
          adaptation_active |-> ~baseline_active,
          baseline_sum |-> 0, baseline_count |-> 0, baseline_err |-> -1,
          best_err |-> Inf, freeze_announced |-> FALSE,
          baseline_start |-> 0, now |-> 0,
          anc_enabled_at |-> IF baseline_active THEN -1 ELSE 0,
          freezes |-> 0 ]

\* max(1, CONTROL_OUTPUT_CHANNEL + 1)
output_channels(n) == Max(1, n.CONTROL_OUTPUT_CHANNEL + 1)

\* run_auto_anc.audio_callback adapting whatever the phase: step size and
\* leakage are always the configured ones.
zc_audio_callback_always(n, d, frames, indata_ref, indata_err) ==
    IF frames # n.BLOCK_SIZE
    THEN [ nb |-> [n EXCEPT !.blocks = n.blocks + 1],
           outdata |-> Filled(output_channels(n), frames, 0),
           last_cb |-> "wrong_size" ]
    ELSE
    LET res == smart_anc_process(indata_ref, indata_err, n.state,
                                 REFERENCE_SAMPLE_RATE, n.STEP_SIZE, n.LEAKAGE)
    IN  [ nb |-> [n EXCEPT !.state = res.state, !.out_buf = res.out_block,
                           !.blocks = n.blocks + 1],
          outdata |-> [ch \in 1..output_channels(n) |->
                          IF ch = n.CONTROL_OUTPUT_CHANNEL + 1
                          THEN res.out_block
                          ELSE Zeros(frames)],
          last_cb |-> "processed" ]

\* run_auto_anc.audio_callback (lines 223-248): the new runner and outdata.
zc_audio_callback(n, d, frames, indata_ref, indata_err) ==
    IF frames # n.BLOCK_SIZE
    THEN [ nb |-> [n EXCEPT !.blocks = n.blocks + 1],
           outdata |-> Filled(output_channels(n), frames, 0),
           last_cb |-> "wrong_size" ]
    ELSE
    LET step_size == IF d.adaptation_active THEN n.STEP_SIZE ELSE 0
        leakage == IF d.adaptation_active THEN n.LEAKAGE ELSE 0
        res == smart_anc_process(indata_ref, indata_err, n.state,
                                 REFERENCE_SAMPLE_RATE, step_size, leakage)
    IN  [ nb |-> [n EXCEPT !.state = res.state, !.out_buf = res.out_block,
                           !.blocks = n.blocks + 1],
          outdata |-> [ch \in 1..output_channels(n) |->
                          IF ch = n.CONTROL_OUTPUT_CHANNEL + 1
                          THEN res.out_block
                          ELSE Zeros(frames)],
          last_cb |-> "processed" ]

\* The baseline branch without the floor at FREEZE_BASELINE_MIN_ERR.
poll_baseline_nofloor(d, now, err_rms) ==
    LET acc == [d EXCEPT !.baseline_sum = d.baseline_sum + err_rms,
                         !.baseline_count = d.baseline_count + 1]
        measured == TruncDiv(acc.baseline_sum, Max(1, acc.baseline_count))
    IN  IF (now - d.baseline_start) >= d.baseline_duration
        THEN [acc EXCEPT !.baseline_err = measured,
                         !.baseline_active = FALSE,
                         !.adaptation_active = TRUE,
                         !.best_err = measured,
                         !.anc_enabled_at = now]
        ELSE acc

\* The baseline branch of one monitor-loop iteration (lines 274-288).
poll_baseline(d, now, err_rms) ==
    LET acc == [d EXCEPT !.baseline_sum = d.baseline_sum + err_rms,
                         !.baseline_count = d.baseline_count + 1]
        measured == TruncDiv(acc.baseline_sum, Max(1, acc.baseline_count))
        baseline_err == Max(measured, FREEZE_BASELINE_MIN_ERR)
    IN  IF (now - d.baseline_start) >= d.baseline_duration
        THEN [acc EXCEPT !.baseline_err = baseline_err,
                         !.baseline_active = FALSE,
                         !.adaptation_active = TRUE,
                         !.best_err = baseline_err,
                         !.anc_enabled_at = now]
        ELSE acc

\* The else branch of one monitor-loop iteration (lines 289-294).
poll_track(d, err_rms) ==
    LET d1 == IF d.baseline_err = -1 /\ err_rms > FREEZE_BASELINE_MIN_ERR
              THEN [d EXCEPT !.baseline_err = err_rms, !.best_err = err_rms]
              ELSE d
    IN  IF err_rms > FREEZE_BASELINE_MIN_ERR /\ err_rms < d1.best_err
        THEN [d1 EXCEPT !.best_err = err_rms]
        ELSE d1

\* (baseline_err - best_err) / baseline_err, in percent.
improvement(d) == TruncDiv((d.baseline_err - d.best_err) * 100, d.baseline_err)

\* The guard of the freeze test (lines 296-304).
freeze_due(d, now) ==
    /\ d.FREEZE_ADAPTATION
    /\ d.adaptation_active
    /\ ~d.baseline_active
    /\ d.baseline_err # -1
    /\ d.anc_enabled_at # -1
    /\ (now - d.anc_enabled_at) >= FREEZE_MIN_SECONDS
    /\ d.best_err < Inf

\* The freeze test without the elapsed-time condition.
poll_freeze_early(d, now) ==
    IF /\ d.FREEZE_ADAPTATION /\ d.adaptation_active /\ ~d.baseline_active
       /\ d.baseline_err # -1 /\ d.best_err < Inf
       /\ improvement(d) >= FREEZE_RELATIVE_DROP
    THEN [d EXCEPT !.adaptation_active = FALSE, !.freeze_announced = TRUE,
                   !.freezes = d.freezes + 1]
    ELSE d

\* The freeze test of one monitor-loop iteration (lines 296-312).
poll_freeze(d, now) ==
    IF freeze_due(d, now) /\ improvement(d) >= FREEZE_RELATIVE_DROP
    THEN [d EXCEPT !.adaptation_active = FALSE, !.freeze_announced = TRUE,
                   !.freezes = d.freezes + 1]
    ELSE d

\* poll, resuming adaptation in a frozen session when the error reading is
\* worse than the best one, the way the adaptation gate re-enables.
poll_resume(d, now, err_rms) ==
    LET d1 == IF d.baseline_active THEN poll_baseline(d, now, err_rms)
              ELSE poll_track(d, err_rms)
        d2 == [poll_freeze(d1, now) EXCEPT !.now = now]
    IN  IF d.freeze_announced /\ err_rms > d.best_err
        THEN [d2 EXCEPT !.adaptation_active = TRUE]
        ELSE d2

\* One iteration of the monitor loop of run_auto_anc (lines 270-316) at
\* clock reading now with state[7] = err_rms.
poll(d, now, err_rms) ==
    LET d1 == IF d.baseline_active THEN poll_baseline(d, now, err_rms)
              ELSE poll_track(d, err_rms)
    IN  [poll_freeze(d1, now) EXCEPT !.now = now]
-----------------------------------------------------------------------------
(* SpecZc: a session of the zero-crossing runner *)

\* The controller object while the zero-crossing runner is the engine.
AncIdle == [ on |-> FALSE ]

\* The shipped configuration of enhanced_ANC/config.py.
ZcBaseArgs ==
    [ inputs |-> "levels", levels |-> <<0, 0, 0>>, STEP_SIZE |-> STEP_SIZE, LEAKAGE |-> LEAKAGE,
      CONTROL_OUTPUT_CHANNEL |-> 0,
      BASELINE_MEASURE_SECONDS |-> BASELINE_MEASURE_SECONDS,
      FREEZE_ADAPTATION |-> TRUE ]

\* Error levels the microphone delivers over a session, as <<first block,
\* middle blocks, last block>>: silence or the level 1.0, then a 20 % or a
\* 10 % drop, then silence or 1.0 again.
ErrLevels ==
    { <<a, b, c>> : a \in {0, ONE}, b \in {(8 * ONE) \div 10, (9 * ONE) \div 10},
                    c \in {0, ONE} }

\* Configurations of the baseline/freeze driver, fed error levels.
ZcDriverArgs ==
    { [ZcBaseArgs EXCEPT !.BASELINE_MEASURE_SECONDS = b, !.FREEZE_ADAPTATION = f,
                         !.levels = lv] :
        b \in {0, BASELINE_MEASURE_SECONDS}, f \in BOOLEAN, lv \in ErrLevels }

\* Configurations of the narrowband engine, fed tones: adaptation from the
\* first block, any step size and leakage, either output channel.
ZcToneArgs ==
    { [ZcBaseArgs EXCEPT !.inputs = "tones", !.BASELINE_MEASURE_SECONDS = 0,
                         !.FREEZE_ADAPTATION = FALSE,
                         !.STEP_SIZE = st, !.LEAKAGE = lk,
                         !.CONTROL_OUTPUT_CHANNEL = ch] :
        st \in {STEP_SIZE, ONE \div 2}, lk \in {LEAKAGE, ONE \div 10},
        ch \in {0, 1} }

\* Blocks the audio driver delivers in a session: one more when it carries
\* error levels, so that a level can drop and come back.
ZcBlockLimit(n) == IF n.inputs = "tones" THEN MaxZcBlocks ELSE MaxZcBlocks + 1

\* The error level of the next block of a session fed error levels.
NextLevel(n) ==
    IF n.blocks = 0 THEN n.levels[1]
    ELSE IF n.blocks + 1 < ZcBlockLimit(n) THEN n.levels[2]
    ELSE n.levels[3]

ZcFrames(n) ==
    IF n.inputs = "tones" THEN {n.BLOCK_SIZE, n.BLOCK_SIZE - 1} ELSE {n.BLOCK_SIZE}

ZcRefBlocks(n) ==
    IF n.inputs = "tones" THEN { Zeros(n.BLOCK_SIZE), Alt(n.BLOCK_SIZE, ONE \div 2) }
    ELSE { Zeros(n.BLOCK_SIZE) }

ZcErrBlocks(n) ==
    IF n.inputs = "tones" THEN { Zeros(n.BLOCK_SIZE), Const(n.BLOCK_SIZE, ONE) }
    ELSE { Const(n.BLOCK_SIZE, NextLevel(n)) }

InitZc ==
    /\ \E c \in ZcDriverArgs \cup ZcToneArgs :
          /\ nb = ZcRunner(c)
          /\ drv = ZcDriver(c)
    /\ anc = AncIdle
    /\ rms_log = <<>>
    /\ outdata = <<>>
    /\ run = [RunIdle EXCEPT !.stream = "active", !.pc = "loop"]

\* The audio driver invokes run_auto_anc.audio_callback with one block.
ZcCallback ==
    /\ nb.on
    /\ run.stream = "active"
    /\ nb.blocks < ZcBlockLimit(nb)
    /\ \E frames \in ZcFrames(nb),
          ref \in ZcRefBlocks(nb), err \in ZcErrBlocks(nb) :
          \E res \in {zc_audio_callback(nb, drv, frames, ref, err)} :
              /\ nb' = res.nb
              /\ outdata' = res.outdata
              /\ run' = [run EXCEPT !.last_cb = res.last_cb]
    /\ UNCHANGED <<anc, rms_log, drv>>

\* One iteration of the monitor loop: time.sleep(0.05), now = time.time(),
\* err_rms = float(state[7]), then the phase logic.
ZcPoll ==
    /\ drv.on
    /\ run.pc = "loop"
    /\ drv.now < BASELINE_MEASURE_SECONDS + FREEZE_MIN_SECONDS + MaxLate
    /\ \E dt \in 1..2 :
          drv' = poll(drv, drv.now + dt, ErrMicro(nb.state.err_rms))
    /\ UNCHANGED <<anc, rms_log, outdata, nb, run>>

NextZc == ZcCallback \/ ZcPoll

SpecZc == InitZc /\ [][NextZc]_vars
-----------------------------------------------------------------------------
(* Properties of the zero-crossing runner *)

\* C2: after any number of blocks processed by _smart_anc_process the L2 norm
\* of the coefficient pair (wa, wb) is at most MAX_NORM.
C2_CoefficientNormBounded ==
    nb.on => nb.state.wa * nb.state.wa + nb.state.wb * nb.state.wb
                 <= MAX_NORM * MAX_NORM

\* The session phase of the baseline/freeze driver.
Phase(d) ==
    IF d.baseline_active THEN "Baseline"
    ELSE IF d.adaptation_active THEN "Active"
    ELSE "Frozen"

PhaseRank(d) ==
    CASE Phase(d) = "Baseline" -> 0
      [] Phase(d) = "Active" -> 1
      [] Phase(d) = "Frozen" -> 2

\* C7: the phase only moves Baseline -> Active -> Frozen: no poll moves it
\* back or skips a phase, and once frozen adaptation_active stays false.
C7_PhaseOneWay ==
    [][ drv.on =>
          /\ PhaseRank(drv') >= PhaseRank(drv)
          /\ PhaseRank(drv') <= PhaseRank(drv) + 1
          /\ (drv.freeze_announced =>
                drv'.freeze_announced /\ ~drv'.adaptation_active) ]_vars

\* A session that measured a baseline, adapted, froze and was polled again
\* with an error reading back at the baseline level.
C7_Witness ==
    /\ drv.on
    /\ drv.baseline_duration > 0
    /\ Phase(drv) = "Frozen"
    /\ drv.now > drv.anc_enabled_at + FREEZE_MIN_SECONDS
    /\ ErrMicro(nb.state.err_rms) >= drv.baseline_err

\* The freeze is earned at the clock reading of d: freezing is enabled, at
\* least FREEZE_MIN_SECONDS have passed since ANC enable and the relative drop
\* reaches FREEZE_RELATIVE_DROP.
Earned(d) ==
    /\ d.FREEZE_ADAPTATION
    /\ d.baseline_err # -1
    /\ d.anc_enabled_at # -1
    /\ d.now - d.anc_enabled_at >= FREEZE_MIN_SECONDS
    /\ (d.baseline_err - d.best_err) * 100 >= FREEZE_RELATIVE_DROP * d.baseline_err

\* C8: a session freezes at most once; a poll freezes only out of Active and
\* only when the freeze is earned at that poll (never before FREEZE_MIN_SECONDS
\* or with a relative drop below the threshold); and the first poll of an
\* Active session at which the freeze is earned does freeze.
C8_FreezeOnceWhenEarned ==
    [][ drv.on =>
          /\ drv'.freezes <= 1
          /\ (drv'.freezes # drv.freezes =>
                Phase(drv) = "Active" /\ Phase(drv') = "Frozen" /\ Earned(drv'))
          /\ (Phase(drv) = "Active" /\ drv' # drv /\ Earned(drv') =>
                Phase(drv') = "Frozen" /\ drv'.freezes = 1) ]_vars

\* The error dropped from a measured baseline of 1.0 to 0.8 and the session
\* froze at the poll that completed FREEZE_MIN_SECONDS.
C8_Witness ==
    /\ drv.on
    /\ drv.baseline_duration > 0
    /\ drv.baseline_err = ErrMicro(ONE)
    /\ drv.best_err = ErrMicro((8 * ONE) \div 10)
    /\ drv.freezes = 1
    /\ Phase(drv) = "Frozen"
-----------------------------------------------------------------------------
(* Spec: a session of either engine *)

Init == InitFx \/ InitZc

Next == NextFx \/ NextZc

Spec == Init /\ [][Next]_vars

\* Every sample of the output buffer as the last callback left it.
OutSamples ==
    UNION { { outdata[ch][i] : i \in DOMAIN outdata[ch] } : ch \in DOMAIN outdata }

\* C3: after a callback of either engine that processed a block or met a
\* wrong-size block, every sample of the output buffer (and of the narrowband
\* engine's out_buf) lies in [-1, 1].
C3_OutputInRange ==
    run.last_cb \in {"processed", "wrong_size"} =>
        /\ \A v \in OutSamples : -ONE <= v /\ v <= ONE
        /\ nb.on => \A i \in DOMAIN nb.out_buf :
                        -ONE <= nb.out_buf[i] /\ nb.out_buf[i] <= ONE

\* The FxLMS callback processed a block in manual-gain mode with a gain
\* beyond 1 and wrote a sample at the edge of the range.
C3_Witness ==
    /\ ~nb.on
    /\ run.last_cb = "processed"
    /\ anc.manual_gain_mode
    /\ Abs(anc.manual_gain) > ONE
    /\ \E v \in OutSamples : Abs(v) = ONE
-----------------------------------------------------------------------------
(* SpecRun: FxLMSANC.run with its monitor loop *)

\* A drain that hands over only the oldest sample and discards the rest.
drain_metrics_lossy(r) ==
    IF r.metrics_on
    THEN [r EXCEPT !.delivered = r.delivered \o SubSeq(r.metrics_queue, 1, Min(1, Len(r.metrics_queue))),
                   !.metrics_queue = <<>>]
    ELSE r

\* _drain_metrics: every queued AncMetrics is handed to metrics_callback.
drain_metrics(r) ==
    IF r.metrics_on
    THEN [r EXCEPT !.delivered = r.delivered \o r.metrics_queue,
                   !.metrics_queue = <<>>]
    ELSE r

InitRun ==
    /\ anc \in { FxLMSANC(c) : c \in {BaseArgs, FileArgs} }
    /\ run \in { RunStarted(FALSE, metrics, duration) :
                   metrics \in BOOLEAN, duration \in {0, MaxDuration} }
    /\ rms_log = <<>>
    /\ outdata = <<>>
    /\ nb = NbIdle
    /\ drv = DrvIdle

\* An exception escapes audio_callback while it reads indata: the stream is
\* aborted, outdata is left as the driver handed it over and no field of the
\* controller is touched.
FxCallbackRaises ==
    /\ ~nb.on
    /\ run.stream = "active"
    /\ anc.frame_index < MaxBlocks
    /\ ~anc.stop_requested
    /\ \E uninit \in Uninit :
          outdata' = Filled(control_channels(anc), anc.block_size, uninit)
    /\ run' = [run EXCEPT !.stream = "aborted", !.last_cb = "raised"]
    /\ UNCHANGED <<anc, rms_log, nb, drv>>

\* A monitor loop that also resets the filter state when max_duration expires.
RunMonitorResets ==
    /\ ~nb.on
    /\ run.pc = "loop"
    /\ IF anc.stop_requested
       THEN /\ run' = [run EXCEPT !.pc = "finally"]
            /\ anc' = anc
       ELSE IF run.max_duration # 0 /\ run.elapsed >= run.max_duration
       THEN /\ anc' = [reset_state(anc) EXCEPT !.stop_requested = TRUE]
            /\ run' = [run EXCEPT !.pc = "finally", !.expired = TRUE]
       ELSE /\ anc' = anc
            /\ run' = [drain_metrics(run) EXCEPT
                         !.elapsed = IF run.max_duration # 0
                                     THEN run.elapsed + 1 ELSE run.elapsed]
    /\ UNCHANGED <<rms_log, outdata, nb, drv>>

\* One test and one iteration of `while not self._stop_requested` (lines
\* 530-536); the clock advances by the sleep while a max_duration is awaited.
RunMonitor ==
    /\ ~nb.on
    /\ run.pc = "loop"
    /\ IF anc.stop_requested
       THEN /\ run' = [run EXCEPT !.pc = "finally"]
            /\ anc' = anc
       ELSE IF run.max_duration # 0 /\ run.elapsed >= run.max_duration
       THEN /\ anc' = [anc EXCEPT !.stop_requested = TRUE]
            /\ run' = [run EXCEPT !.pc = "finally", !.expired = TRUE]
       ELSE /\ anc' = anc
            /\ run' = [drain_metrics(run) EXCEPT
                         !.elapsed = IF run.max_duration # 0
                                     THEN run.elapsed + 1 ELSE run.elapsed]
    /\ UNCHANGED <<rms_log, outdata, nb, drv>>

\* KeyboardInterrupt reaches the monitor loop (lines 537-539).
RunInterrupt ==
    /\ ~nb.on
    /\ run.pc = "loop"
    /\ anc' = [anc EXCEPT !.stop_requested = TRUE]
    /\ run' = [run EXCEPT !.pc = "finally", !.interrupted = TRUE]
    /\ UNCHANGED <<rms_log, outdata, nb, drv>>

\* The finally block (lines 540-549): stream.stop(), stream.close(), the last
\* drain, and the return or the re-raised KeyboardInterrupt.
RunFinally ==
    /\ ~nb.on
    /\ run.pc = "finally"
    /\ run' = [drain_metrics(run) EXCEPT
                 !.stream = "closed",
                 !.pc = IF run.interrupted THEN "interrupt_raised" ELSE "returned"]
    /\ UNCHANGED <<anc, rms_log, outdata, nb, drv>>

NextRun ==
    FxCallback \/ FxCallbackRaises \/ FxStop \/ RunMonitor \/ RunInterrupt \/ RunFinally

\* The main thread keeps running: the monitor loop and the finally block are
\* never starved.
SpecRun ==
    InitRun /\ [][NextRun]_vars /\ WF_vars(RunMonitor) /\ WF_vars(RunFinally)

\* C9: the audio callback invocation that observes the stop flag leaves an
\* all-zero block in the output buffer.
C9_StopBlockIsZero ==
    run.last_cb = "stopped" => \A v \in OutSamples : v = 0

\* C10: after each stop cause (user interrupt, max_duration expiry seen by the
\* monitor loop, exception raised inside the audio callback) run() eventually
\* leaves the monitor loop and the stream is stopped and closed.
C10_StreamsAlwaysClosed ==
    (run.interrupted \/ run.expired \/ run.last_cb = "raised")
        ~> (run.pc # "loop" /\ run.stream = "closed")
-----------------------------------------------------------------------------
(* Properties of FxLMSANC.run: metrics *)

\* The frame_index values of a sequence of AncMetrics.
FrameIndexes(q) == [i \in 1..Len(q) |-> q[i].frame_index]

\* C11: with a metrics callback, the samples delivered so far followed by the
\* samples still queued are exactly one sample per processed block, with
\* frame_index 0, 1, 2, ... in that order (none lost, none twice); without a
\* callback nothing is published; and when run() has returned every published
\* sample has been delivered.
C11_MetricsDelivery ==
    run.pc # "idle" =>
        /\ FrameIndexes(run.delivered \o run.metrics_queue)
               = [i \in 1..(IF run.metrics_on THEN anc.frame_index ELSE 0) |-> i - 1]
        /\ (run.pc \in {"returned", "interrupt_raised"} => run.metrics_queue = <<>>)

\* run() returned after the monitor loop delivered a sample and the finally
\* block delivered the samples published after it.
C11_Witness ==
    /\ run.pc = "returned"
    /\ run.metrics_on
    /\ Len(run.delivered) >= 2
    /\ Len(run.delivered) = anc.frame_index
-----------------------------------------------------------------------------
(* FxLMSANC.run with the mutex of the metrics queue *)

(* metrics_queue is a queue.Queue (line 443).  Queue.put and Queue.get_nowait
   both run under the queue's one mutex: put appends inside `with
   self.not_full`, get_nowait removes inside `with self.not_empty`, and both
   conditions share Queue.mutex.  run.mutex is its holder; run.cb_pending
   holds the arguments of a callback that has reached metrics_queue.put
   (line 504) and waits for the mutex. *)

InitQueue ==
    /\ anc = FxLMSANC(BaseArgs)
    /\ run \in { RunStarted(FALSE, metrics, duration) :
                    metrics \in BOOLEAN, duration \in {0, MaxDuration} }
    /\ rms_log = <<>>
    /\ outdata = <<>>
    /\ nb = NbIdle
    /\ drv = DrvIdle

\* The audio driver invokes audio_callback; a block that publishes a sample
\* needs the mutex at metrics_queue.put and waits while the monitor holds it.
QueueCallback ==
    /\ run.stream = "active"
    /\ run.cb_pending = <<>>
    /\ anc.frame_index < MaxBlocks
    /\ \E frames \in {anc.block_size, anc.block_size - 1},
          ref \in RefBlocks(anc.block_size),
          err \in ErrBlocks(anc.block_size),
          uninit \in IF anc.stop_requested THEN Uninit ELSE {0} :
          \E res \in {audio_callback(anc, run, frames, ref, err, uninit)} :
              IF /\ Len(res.run.metrics_queue) > Len(run.metrics_queue)
                 /\ run.mutex = "monitor"
              THEN /\ run' = [run EXCEPT !.cb_pending =
                                 << [frames |-> frames, ref |-> ref,
                                     err |-> err, uninit |-> uninit] >>]
                   /\ UNCHANGED <<anc, outdata>>
              ELSE /\ anc' = res.anc
                   /\ outdata' = res.outdata
                   /\ run' = res.run
    /\ UNCHANGED <<rms_log, nb, drv>>

\* The waiting callback obtains the mutex, puts its sample and runs to its end.
QueuePutResume ==
    /\ run.cb_pending # <<>>
    /\ run.mutex = "free"
    /\ \E a \in {run.cb_pending[1]} :
          \E res \in {audio_callback(anc, run, a.frames, a.ref, a.err, a.uninit)} :
              /\ anc' = res.anc
              /\ outdata' = res.outdata
              /\ run' = [res.run EXCEPT !.cb_pending = <<>>]
    /\ UNCHANGED <<rms_log, nb, drv>>

\* _drain_metrics in the monitor loop: get_nowait takes the mutex (line 557).
QueueGetAcquire ==
    /\ run.pc = "loop"
    /\ run.metrics_on
    /\ run.mutex = "free"
    /\ run' = [run EXCEPT !.mutex = "monitor"]
    /\ UNCHANGED <<anc, rms_log, outdata, nb, drv>>

\* get_nowait removes the oldest sample, or finds the queue empty, and gives
\* the mutex back; a removed sample goes to metrics_callback (line 558).
QueueGetRelease ==
    /\ run.mutex = "monitor"
    /\ run' = [run EXCEPT
                 !.mutex = "free",
                 !.delivered = run.delivered
                     \o SubSeq(run.metrics_queue, 1, Min(1, Len(run.metrics_queue))),
                 !.metrics_queue = SubSeq(run.metrics_queue, 2, Len(run.metrics_queue))]
    /\ UNCHANGED <<anc, rms_log, outdata, nb, drv>>

\* The loop test and the max_duration test of the monitor loop (lines 530-533)
\* and its sleep (line 536).
QueueMonitor ==
    /\ run.pc = "loop"
    /\ run.mutex = "free"
    /\ IF anc.stop_requested
       THEN /\ run' = [run EXCEPT !.pc = "finally"]
            /\ anc' = anc
       ELSE IF run.max_duration # 0 /\ run.elapsed >= run.max_duration
       THEN /\ anc' = [anc EXCEPT !.stop_requested = TRUE]
            /\ run' = [run EXCEPT !.pc = "finally", !.expired = TRUE]
       ELSE /\ run.max_duration # 0
            /\ anc' = anc
            /\ run' = [run EXCEPT !.elapsed = run.elapsed + 1]
    /\ UNCHANGED <<rms_log, outdata, nb, drv>>

\* The finally block: stream.stop() returns once the callback in progress has
\* ended; the last drain has no callback to contend with.
QueueFinally ==
    /\ run.cb_pending = <<>>
    /\ run.mutex = "free"
    /\ RunFinally

NextQueue ==
    \/ QueueCallback
    \/ QueuePutResume
    \/ QueueGetAcquire
    \/ QueueGetRelease
    \/ QueueMonitor
    \/ QueueFinally
    \/ FxStop

SpecQueue == InitQueue /\ [][NextQueue]_vars

\* C12: the audio callback never waits for a lock that the monitor thread
\* holds: it is never stopped at metrics_queue.put while the monitor is inside
\* get_nowait.
C12_CallbackNeverWaits ==
    ~(run.cb_pending # <<>> /\ run.mutex = "monitor")
-----------------------------------------------------------------------------
(* The threads of a session: audio callback, monitor loop, reference playback *)

\* Samples of the reference clip the playback thread plays.
RefClipLen == 3

\* One iteration of the worker loop of start_reference_playback: the index
\* after the block at idx has been cut, and whether stop_event was set.
playback_step(idx, length, block_size, loop) ==
    IF Max(0, Min(block_size, length - idx)) < block_size
    THEN [idx |-> 0, stop |-> ~loop]
    ELSE [idx |-> IF idx + block_size >= length /\ loop THEN 0
                  ELSE idx + block_size,
          stop |-> FALSE]

\* The playback thread cuts one block and writes it to its output stream.
PlaybackWrite ==
    /\ run.play_stream = "open"
    /\ ~run.play_stop
    /\ \E res \in {playback_step(run.play_idx, RefClipLen, BlockSize, run.play_loop)} :
          run' = [run EXCEPT !.play_idx = res.idx, !.play_stop = res.stop]
    /\ UNCHANGED <<anc, rms_log, outdata, nb, drv>>

\* The worker loop ends on stop_event and the `with` block closes the stream.
PlaybackExit ==
    /\ run.play_stream = "open"
    /\ run.play_stop
    /\ run' = [run EXCEPT !.play_stream = "closed"]
    /\ UNCHANGED <<anc, rms_log, outdata, nb, drv>>

\* Narrowband sessions with the shipped leakage; those fed tones adapt with
\* the step size 0.5.
ThreadArgs ==
    { c \in ZcDriverArgs \cup ZcToneArgs :
        /\ c.inputs = "tones" => c.STEP_SIZE = ONE \div 2
        /\ c.LEAKAGE = LEAKAGE
        /\ c.CONTROL_OUTPUT_CHANNEL = 0
        /\ c.inputs = "levels" =>
               /\ c.FREEZE_ADAPTATION
               /\ c.BASELINE_MEASURE_SECONDS = BASELINE_MEASURE_SECONDS
               /\ c.levels = <<ONE, (8 * ONE) \div 10, ONE>> }

\* An FxLMS session in run(), or a narrowband session in its monitor loop with
\* the reference playback thread at work.
InitThreads ==
    \/ /\ anc = FxLMSANC(BaseArgs)
       /\ run \in { RunStarted(FALSE, FALSE, duration) : duration \in {0, MaxDuration} }
       /\ rms_log = <<>>
       /\ outdata = <<>>
       /\ nb = NbIdle
       /\ drv = DrvIdle
    \/ /\ \E c \in ThreadArgs :
             /\ nb = ZcRunner(c)
             /\ drv = ZcDriver(c)
       /\ anc = AncIdle
       /\ rms_log = <<>>
       /\ outdata = <<>>
       /\ run \in { [RunIdle EXCEPT !.stream = "active", !.pc = "loop",
                                    !.play_stream = "open", !.play_loop = loop] :
                       loop \in BOOLEAN }

NextThreads == NextRun \/ NextZc \/ PlaybackWrite \/ PlaybackExit

SpecThreads == InitThreads /\ [][NextThreads]_vars

\* The adaptive state of the running engine: the six narrowband slots, or the
\* FxLMS weights and the three history buffers.
AdaptiveState ==
    IF nb.on
    THEN << nb.state.prev_ref, nb.state.phase, nb.state.samples_since,
            nb.state.freq_hz, nb.state.wa, nb.state.wb >>
    ELSE << anc.weights, anc.ref_history, anc.sec_history, anc.fx_history >>

\* C13: while the stream is running, every step that changes the adaptive
\* state is a step of the audio callback; the steps of the monitor loop, of
\* stop() and of the playback thread leave it as it was.
C13_SingleWriter ==
    [][ (run.stream = "active" /\ AdaptiveState' # AdaptiveState)
            => (FxCallback \/ ZcCallback) ]_vars

\* The callback has adapted the narrowband weights while the monitor loop has
\* polled and the playback thread has written a block.
C13_Witness ==
    /\ nb.on
    /\ run.stream = "active"
    /\ nb.state.wa # 0
    /\ drv.now > 0
    /\ run.play_idx > 0
-----------------------------------------------------------------------------
(* Startup of the zero-crossing runner: main() and run_auto_anc *)

\* Channels of the largest audio device considered.
DeviceChannels == 2

LOOP_REFERENCE == TRUE

\* io_utils.ensure_available_channels: the error it raises, or "none".
ensure_available_channels(available, required_channels, label) ==
    IF required_channels <= 0 THEN label
    ELSE IF available < required_channels THEN label
    ELSE "none"

\* _require_non_negative on the three channel constants (lines 181-183).
require_non_negative(c) ==
    IF \/ c.ERROR_INPUT_CHANNEL < 0
       \/ c.REFERENCE_INPUT_CHANNEL < 0
       \/ c.CONTROL_OUTPUT_CHANNEL < 0
    THEN "negative_channel" ELSE "none"

\* The validation of run_auto_anc (lines 181-221): the first error raised.
validate_channels(c) ==
    IF require_non_negative(c) # "none" THEN require_non_negative(c)
    ELSE IF ensure_available_channels(c.record_inputs,
                Max(c.ERROR_INPUT_CHANNEL, c.REFERENCE_INPUT_CHANNEL) + 1,
                "record_channels") # "none"
    THEN "record_channels"
    ELSE ensure_available_channels(c.control_outputs,
                Max(1, c.CONTROL_OUTPUT_CHANNEL + 1), "control_channels")

\* The channel constants of config.py and the capacities the devices report.
\* REFERENCE_OUTPUT_CHANNEL is -1 while None.
StartupArgs ==
    [ PLAY_REFERENCE : BOOLEAN,
      REFERENCE_OUTPUT_CHANNEL : {-1, DeviceChannels},
      ERROR_INPUT_CHANNEL : 0..DeviceChannels,
      REFERENCE_INPUT_CHANNEL : {1},
      CONTROL_OUTPUT_CHANNEL : -1..DeviceChannels,
      record_inputs : 1..DeviceChannels,
      control_outputs : 1..DeviceChannels,
      reference_outputs : {1, DeviceChannels + 1} ]

\* Audio streams of the session that have been opened so far.
streams_opened(r) ==
    (IF r.stream # "none" THEN 1 ELSE 0)
        + (IF r.play_stream \in {"open", "closed"} THEN 1 ELSE 0)

InitStartup ==
    /\ nb \in { [on |-> FALSE, cli |-> c] : c \in StartupArgs }
    /\ drv = DrvIdle
    /\ anc = AncIdle
    /\ rms_log = <<>>
    /\ outdata = <<>>
    /\ run = [RunIdle EXCEPT !.pc = "main"]

\* main() calls start_reference_playback (line 366): nothing without
\* PLAY_REFERENCE; otherwise the playback device is validated and the worker
\* thread is started.  An error here is raised outside main's try block.
MainStartPlayback ==
    /\ run.pc = "main"
    /\ \E c \in {nb.cli} :
          IF ~c.PLAY_REFERENCE
          THEN run' = [run EXCEPT !.pc = "run_auto_anc"]
          ELSE \E err \in {ensure_available_channels(c.reference_outputs,
                              Max(1, (IF c.REFERENCE_OUTPUT_CHANNEL = -1 THEN 0
                                      ELSE c.REFERENCE_OUTPUT_CHANNEL) + 1),
                              "reference_channels")} :
                  IF err # "none"
                  THEN run' = [run EXCEPT !.pc = "raised_in_main",
                                          !.config_error = err,
                                          !.streams_at_error = streams_opened(run)]
                  ELSE run' = [run EXCEPT !.pc = "run_auto_anc",
                                          !.play_stream = "starting",
                                          !.play_loop = LOOP_REFERENCE]
    /\ UNCHANGED <<anc, rms_log, outdata, nb, drv>>

\* The worker thread enters `with sd.OutputStream(...)`.
PlaybackOpen ==
    /\ run.play_stream = "starting"
    /\ run' = [run EXCEPT !.play_stream = "open"]
    /\ UNCHANGED <<anc, rms_log, outdata, nb, drv>>

\* run_auto_anc validates the channels (lines 181-221), after the pre-roll
\* sleep of main().
MainValidate ==
    /\ run.pc = "run_auto_anc"
    /\ \E err \in {validate_channels(nb.cli)} :
          IF err # "none"
          THEN run' = [run EXCEPT !.pc = "raised",
                                  !.config_error = err,
                                  !.streams_at_error = streams_opened(run)]
          ELSE run' = [run EXCEPT !.pc = "validated"]
    /\ UNCHANGED <<anc, rms_log, outdata, nb, drv>>

\* run_auto_anc creates the duplex stream and enters `with stream`.
MainOpenStream ==
    /\ run.pc = "validated"
    /\ \E c \in {[ZcBaseArgs EXCEPT
                    !.CONTROL_OUTPUT_CHANNEL = nb.cli.CONTROL_OUTPUT_CHANNEL]} :
          /\ nb' = ZcRunner(c)
          /\ drv' = ZcDriver(c)
    /\ run' = [run EXCEPT !.pc = "loop", !.stream = "active"]
    /\ UNCHANGED <<anc, rms_log, outdata>>

\* The finally block of main() (lines 375-379) after run_auto_anc raised.
MainFinally ==
    /\ run.pc = "raised"
    /\ run' = [run EXCEPT !.pc = "exited",
                          !.play_stop = run.play_stream # "none"]
    /\ UNCHANGED <<anc, rms_log, outdata, nb, drv>>

NextStartup ==
    \/ MainStartPlayback
    \/ PlaybackOpen
    \/ MainValidate
    \/ MainOpenStream
    \/ MainFinally
    \/ PlaybackWrite
    \/ PlaybackExit

SpecStartup == InitStartup /\ [][NextStartup]_vars

\* C14: when startup has failed because a configured channel index is not
\* below the capacity of its device, no audio stream of the session, duplex or
\* reference playback, had been opened at the moment the error was raised.
C14_ValidationBeforeStreams ==
    run.config_error \in {"record_channels", "control_channels", "reference_channels"}
        => run.streams_at_error = 0
-----------------------------------------------------------------------------
(* FxLMSANC.__init__: the errors of the constructor *)

(* What the constructor tests of its arguments: whether reference_path,
   reference_input_device_index, reference_channel_index, sample_rate,
   record_device_index and reference_device_index are given, whether a given
   sample_rate equals the rate of the reference file, filter_length, and the
   number of dimensions of secondary_path (-1 while None). *)
CtorArgs ==
    [ reference_path : BOOLEAN,
      reference_input_device_index : BOOLEAN,
      reference_channel_index : BOOLEAN,
      require_reference : BOOLEAN,
      sample_rate : {"none", "same", "other"},
      filter_length : -1..FilterLen,
      secondary_path_ndim : {-1, 0, 1, 2},
      record_device_index : BOOLEAN,
      split_reference_channels : BOOLEAN,
      reference_device_index : BOOLEAN ]

\* The ValueError __init__ raises for the arguments a, in the order of its
\* tests, or "none".  The last test is that of np.zeros in _reset_state, which
\* refuses a negative length and accepts the length zero.
init_error(a) ==
    IF /\ ~a.reference_path
       /\ ~a.reference_input_device_index
       /\ ~a.reference_channel_index
       /\ a.require_reference
    THEN "no_reference"
    ELSE IF a.reference_input_device_index /\ a.reference_channel_index
    THEN "two_references"
    ELSE IF a.reference_path /\ a.sample_rate = "other"
    THEN "sample_rate_mismatch"
    ELSE IF ~a.reference_path /\ a.sample_rate = "none"
    THEN "no_sample_rate"
    ELSE IF a.secondary_path_ndim \notin {-1, 1}
    THEN "secondary_path_not_1d"
    ELSE IF a.reference_channel_index /\ ~a.record_device_index
    THEN "no_record_device"
    ELSE IF a.split_reference_channels /\ a.reference_device_index
    THEN "split_with_reference_device"
    ELSE IF a.filter_length < 0
    THEN "negative_dimensions"
    ELSE "none"

\* The constructor arguments of the model for the tested arguments a.
ctor_config(a) ==
    [BaseArgs EXCEPT !.filter_length = a.filter_length,
                     !.split_reference_channels = a.split_reference_channels,
                     !.live_reference = a.reference_input_device_index
                                            \/ a.reference_channel_index,
                     !.reference_signal =
                         IF a.reference_path THEN FileArgs.reference_signal
                         ELSE Zeros(BlockSize)]

\* A caller about to construct a controller; drv holds its arguments.
InitCtor ==
    /\ drv \in { [on |-> FALSE, args |-> a, raised |-> "none"] : a \in CtorArgs }
    /\ anc = AncIdle
    /\ nb = NbIdle
    /\ rms_log = <<>>
    /\ outdata = <<>>
    /\ run = RunIdle

\* FxLMSANC(...): the object, or the error raised.
Construct ==
    /\ run.pc = "idle"
    /\ \E err \in {init_error(drv.args)} :
          IF err = "none"
          THEN /\ anc' = FxLMSANC(ctor_config(drv.args))
               /\ run' = [run EXCEPT !.pc = "constructed"]
               /\ drv' = drv
          ELSE /\ anc' = anc
               /\ run' = [run EXCEPT !.pc = "ctor_raised"]
               /\ drv' = [drv EXCEPT !.raised = err]
    /\ UNCHANGED <<rms_log, outdata, nb>>

NextCtor == Construct

SpecCtor == InitCtor /\ [][NextCtor]_vars

\* C15: a controller is constructed only from a positive filter length and a
\* one-dimensional (or absent) secondary path; every other such argument ends
\* the constructor with an error.
C15_InvalidArgumentsRaise ==
    run.pc = "constructed" =>
        /\ drv.args.filter_length > 0
        /\ drv.args.secondary_path_ndim \in {-1, 1}
-----------------------------------------------------------------------------
(* Secondary-path identification: FxLMSANC.measure_secondary_path *)

\* fir_length of the modelled identification.
FirLen == 2
\* MEASUREMENT_REPEATS of the longest modelled measurement session.
MaxRepeats == 2

\* n_samples = int(duration * sample_rate): enough for fir_length + 2 rows.
MeasureSamples == 2 * FirLen + 2

\* Excitations np.random.uniform can draw, in units of excitation_level: a
\* fixed beginning and every ending of two samples.
Excitations ==
    { [i \in 1..MeasureSamples |->
          IF i = MeasureSamples - 1 THEN a
          ELSE IF i = MeasureSamples THEN b
          ELSE IF i % 3 = 0 THEN -1 ELSE 1] : a \in {-1, 1}, b \in {-1, 1} }

\* The speaker-to-microphone paths of the room: fir_length taps.
TruePaths == [1..FirLen -> {-1, 0, 1}] \ {[i \in 1..FirLen |-> 0]}

\* What the microphone records of the excitation through the path h: the
\* convolution, sample n being sum over k of h[k] * excitation[n - k].
Convolve(excitation, h) ==
    [n \in 1..Len(excitation) |->
        SumSeq([k \in 1..Len(h) |->
                   IF n - k + 1 >= 1 THEN h[k] * excitation[n - k + 1] ELSE 0])]

\* X of lines 650-652: row r, column i holds excitation[i + r] (0-based).
design_matrix(excitation, fir_length) ==
    [r \in 1..(Len(excitation) - fir_length) |->
        [i \in 1..fir_length |-> excitation[r + i - 1]]]

\* y = error[fir_length:] (line 653).
design_target(error, fir_length) ==
    [r \in 1..(Len(error) - fir_length) |-> error[fir_length + r]]

\* Transpose(X) * X and Transpose(X) * y, the normal equations of X h = y.
normal_matrix(X) ==
    [i \in 1..Len(X[1]) |->
        [j \in 1..Len(X[1]) |-> SumSeq([r \in 1..Len(X) |-> X[r][i] * X[r][j]])]]

normal_rhs(X, y) ==
    [i \in 1..Len(X[1]) |-> SumSeq([r \in 1..Len(X) |-> X[r][i] * y[r]])]

\* A square matrix without its first row and its column c.
Minor(M, c) ==
    [r \in 1..(Len(M) - 1) |->
        [j \in 1..(Len(M) - 1) |-> IF j < c THEN M[r + 1][j] ELSE M[r + 1][j + 1]]]

\* Determinant by expansion along the first row.
RECURSIVE Det(_)
Det(M) ==
    IF Len(M) = 1 THEN M[1][1]
    ELSE SumSeq([c \in 1..Len(M) |->
                    (IF c % 2 = 1 THEN 1 ELSE -1) * M[1][c] * Det(Minor(M, c))])

\* The matrix A with its column c replaced by the vector b.
ReplaceCol(A, c, b) ==
    [r \in 1..Len(A) |-> [j \in 1..Len(A) |-> IF j = c THEN b[r] ELSE A[r][j]]]

\* np.linalg.lstsq for a matrix of full column rank: the one solution of the
\* normal equations, by Cramer's rule, as numerators over one denominator.
lstsq(X, y) ==
    [ num |-> [i \in 1..Len(X[1]) |->
                  Det(ReplaceCol(normal_matrix(X), i, normal_rhs(X, y)))],
      den |-> Det(normal_matrix(X)) ]

\* Decimal scale at which the square root of s is taken.
SqrtScale(s) ==
    IF s <= 2000 THEN 1000 ELSE IF s <= 200000 THEN 100 ELSE 10

\* h / sqrt(sum(h ** 2) + 1e-12) for h = num / den, on the grid; a zero h
\* stays zero (it is divided by 1e-6).
normalize_taps(num, den, s) ==
    IF s = 0 THEN Zeros(Len(num))
    ELSE [i \in 1..Len(num) |->
             TruncDiv((IF den < 0 THEN -1 ELSE 1) * num[i] * ONE * SqrtScale(s),
                      FloorSqrt(s * SqrtScale(s) * SqrtScale(s)))]

\* The taps measure_secondary_path computes from an excitation and a recording
\* (lines 650-658).
estimate_taps(excitation, error, fir_length) ==
    LET sol == lstsq(design_matrix(excitation, fir_length),
                     design_target(error, fir_length))
    IN  normalize_taps(sol.num, sol.den, SumSq(sol.num))

\* A measurement that does not look at the devices.
measure_error_off(self) == "none"

\* The ValueError of measure_secondary_path (lines 628-629), or "none".
measure_error(self) ==
    IF self.control_device_index = -1 \/ self.record_device_index = -1
    THEN "devices_not_set" ELSE "none"

\* What the microphone adds to the recording: nothing, or a hum.
Disturbances ==
    { Zeros(MeasureSamples),
      [n \in 1..MeasureSamples |-> IF n % 2 = 0 THEN 1 ELSE 0] }

\* np.mean(np.stack(tap_sets, axis=0), axis=0): the tap-wise mean.
mean_taps(tap_sets) ==
    [i \in 1..Len(tap_sets[1]) |->
        TruncDiv(SumSeq([k \in 1..Len(tap_sets) |-> tap_sets[k][i]]), Len(tap_sets))]

\* The controller of a measurement session; a device index is -1 while None.
MeasureController(cd, rd) ==
    [ on |-> FALSE, control_device_index |-> cd, record_device_index |-> rd,
      secondary_path |-> DeltaPath, stop_requested |-> FALSE ]

\* io_utils.measure_secondary_path before its loop: drv is the repeat driver,
\* nb the room with its true path.
InitMeasure ==
    /\ anc \in { MeasureController(cd, rd) : cd \in {-1, 9}, rd \in {-1, 9} }
    /\ nb \in { [on |-> FALSE, true_path |-> h] : h \in TruePaths }
    /\ drv \in { [on |-> FALSE, pc |-> "loop", repeats |-> n, runs |-> 0,
                  attempts |-> 0, played |-> 0, tap_sets |-> <<>>,
                  saved |-> <<>>, noise_free |-> FALSE] : n \in 1..MaxRepeats }
    /\ rms_log = <<>>
    /\ outdata = <<>>
    /\ run = RunIdle

\* One pass of the repeat loop: controller.measure_secondary_path raises, and
\* the error leaves the driver through its finally block (controller.stop()),
\* or it plays an excitation, records, solves, normalises and stores the taps.
\* A uniformly drawn excitation gives a matrix of full rank and, through a
\* path that is not zero, an estimate that is not zero.
MeasureRun ==
    /\ drv.pc = "loop"
    /\ drv.runs < drv.repeats
    /\ IF measure_error(anc) # "none"
       THEN /\ drv' = [drv EXCEPT !.pc = "raised", !.attempts = drv.attempts + 1]
            /\ anc' = [anc EXCEPT !.stop_requested = TRUE]
       ELSE \E excitation \in Excitations, disturbance \in Disturbances :
               /\ Det(normal_matrix(design_matrix(excitation, FirLen))) # 0
               /\ \E taps \in {estimate_taps(excitation,
                                  [n \in 1..MeasureSamples |->
                                      Convolve(excitation, nb.true_path)[n] + disturbance[n]],
                                  FirLen)} :
                     /\ taps # Zeros(FirLen)
                     /\ anc' = [anc EXCEPT !.secondary_path = taps]
                     /\ drv' = [drv EXCEPT !.runs = drv.runs + 1,
                                           !.attempts = drv.attempts + 1,
                                           !.played = drv.played + 1,
                                           !.tap_sets = Append(drv.tap_sets, taps),
                                           !.noise_free = disturbance = Zeros(MeasureSamples)]
    /\ UNCHANGED <<rms_log, outdata, nb, run>>

\* After the loop: the single tap set or the tap-wise mean is saved to
\* SECONDARY_PATH, then the finally block stops the controller.
MeasureSave ==
    /\ drv.pc = "loop"
    /\ drv.runs = drv.repeats
    /\ drv' = [drv EXCEPT !.pc = "saved",
                          !.saved = << IF Len(drv.tap_sets) = 1 THEN drv.tap_sets[1]
                                       ELSE mean_taps(drv.tap_sets) >>]
    /\ anc' = [anc EXCEPT !.stop_requested = TRUE]
    /\ UNCHANGED <<rms_log, outdata, nb, run>>

NextMeasure == MeasureRun \/ MeasureSave

SpecMeasure == InitMeasure /\ [][NextMeasure]_vars

\* C16: with the control or the record device not set, no excitation is ever
\* played, the secondary path of the controller stays what it was, the first
\* call of the repeat driver raises and is the only one, and no secondary-path
\* file is written.
C16_IdentificationFailsFast ==
    (anc.control_device_index = -1 \/ anc.record_device_index = -1) =>
        /\ drv.played = 0
        /\ anc.secondary_path = DeltaPath
        /\ drv.saved = <<>>
        /\ drv.attempts <= 1
        /\ drv.attempts = 1 => drv.pc = "raised"
        /\ drv.pc \in {"loop", "raised"}

\* A driver with two repeats configured has stopped at the error of its first
\* call.
C16_Witness ==
    /\ anc.record_device_index = -1
    /\ drv.pc = "raised"
    /\ drv.repeats > 1

\* The path h scaled to unit energy, as the normalisation of line 656 scales.
UnitPath(h) == normalize_taps(h, 1, SumSq(h))

\* Largest difference of a tap that still counts as equal: 0.005.
TapTol == ONE \div 200

\* C17: after a measurement whose recording was the excitation convolved with
\* the true path and nothing else, the controller's secondary path is the true
\* path scaled to unit energy, tap by tap in the same order.
C17_RoundTrip ==
    (drv.runs >= 1 /\ drv.noise_free) =>
        \A i \in 1..FirLen :
            Abs(anc.secondary_path[i] - UnitPath(nb.true_path)[i]) <= TapTol

\* Sum of squared taps equal to 1 within two percent.
UnitEnergy(taps) == Abs(SumSq(taps) - ONE * ONE) <= (ONE * ONE) \div 50

\* C18: the secondary path written to the file has unit energy, after a
\* single measurement and after the tap-wise mean over several.
C18_StoredPathUnitEnergy ==
    drv.saved # <<>> => UnitEnergy(drv.saved[1])

-----------------------------------------------------------------------------
(* The narrowband engine sample by sample: phase and frequency tracking *)

\* Samples followed beyond the first two seconds of a tone.
TrackExtra == 480
\* Samples of a silent session that are followed.
MaxSilentSamples == 7000

\* Sample i (from 0) of a sine of freq hertz sampled at sample_rate.
SineSample(i, freq, sample_rate) ==
    Sin(TruncDiv(TWO_PI * ((i * freq) % sample_rate), sample_rate))

\* The reference sample the microphone delivers next.
ToneSample(n) ==
    IF n.inputs = "sine" THEN SineSample(n.samples, 200, n.sample_rate) ELSE 0

\* A frequency estimate that forgets to restart the count of samples at a
\* zero crossing.
smart_anc_sample_nocount(st, ref_sample, err_sample, sample_rate, step_size, leakage) ==
    LET crossing == \/ (ref_sample >= 0 /\ st.prev_ref < 0)
                    \/ (ref_sample < 0 /\ st.prev_ref >= 0)
        valid == crossing /\ st.samples_since > 1
        freq_est == IF valid
                    THEN TruncDiv(sample_rate * FreqOne, 2 * st.samples_since)
                    ELSE 0
        freq_hz == IF valid /\ 50 * FreqOne < freq_est /\ freq_est < 1000 * FreqOne
                   THEN TruncDiv(9 * st.freq_hz + freq_est, 10)
                   ELSE st.freq_hz
        phase1 == st.phase + TruncDiv(TWO_PI * freq_hz, sample_rate * FreqOne)
    IN  [ prev_ref |-> ref_sample,
          phase |-> IF phase1 > TWO_PI THEN phase1 - TWO_PI ELSE phase1,
          samples_since |-> st.samples_since + 1,
          freq_hz |-> freq_hz,
          wa |-> st.wa,
          wb |-> st.wb,
          out |-> st.out ]

\* One sample of the engine that never restarts its count of samples.
tone_step_nocount(state, ref_sample, sample_rate) ==
    smart_anc_sample_nocount(state, ref_sample, 0, sample_rate, STEP_SIZE, LEAKAGE)

\* One sample of an engine that smooths every estimate of a counted crossing
\* into the frequency, whatever band it falls in.
tone_step_noband(state, ref_sample, sample_rate) ==
    LET crossing == \/ (ref_sample >= 0 /\ state.prev_ref < 0)
                    \/ (ref_sample < 0 /\ state.prev_ref >= 0)
        valid == crossing /\ state.samples_since > 1
        freq_hz == IF valid
                   THEN TruncDiv(9 * state.freq_hz
                                 + TruncDiv(sample_rate * FreqOne,
                                            2 * state.samples_since), 10)
                   ELSE state.freq_hz
        phase1 == state.phase + TruncDiv(TWO_PI * freq_hz, sample_rate * FreqOne)
    IN  [ prev_ref |-> ref_sample,
          phase |-> IF phase1 > TWO_PI THEN phase1 - TWO_PI ELSE phase1,
          samples_since |-> (IF valid THEN 0 ELSE state.samples_since) + 1,
          freq_hz |-> freq_hz,
          wa |-> state.wa,
          wb |-> state.wb,
          out |-> <<>> ]

\* One sample of the engine with no error signal; the output is dropped.
tone_step(state, ref_sample, sample_rate) ==
    [smart_anc_sample(state, ref_sample, 0, sample_rate, STEP_SIZE, LEAKAGE)
        EXCEPT !.out = <<>>]

\* A session of the engine on its own: the state of lines 187-189 as the
\* sample loop loads it, fed a 200 Hz sine at 48 kHz or silence at 8 kHz.
InitTone ==
    /\ nb \in { [ on |-> TRUE, inputs |-> c[1], sample_rate |-> c[2], samples |-> 0,
                  state |-> [ prev_ref |-> 0, phase |-> 0,
                              samples_since |-> InitialState.samples_since,
                              freq_hz |-> InitialState.freq_hz,
                              wa |-> 0, wb |-> 0, out |-> <<>> ] ] :
                c \in { <<"sine", REFERENCE_SAMPLE_RATE>>, <<"silence", 8000>> } }
    /\ drv = DrvIdle
    /\ anc = AncIdle
    /\ rms_log = <<>>
    /\ outdata = <<>>
    /\ run = [RunIdle EXCEPT !.stream = "active", !.pc = "loop"]

\* The engine processes the next sample.
ToneStep ==
    /\ nb.samples < (IF nb.inputs = "sine" THEN 2 * nb.sample_rate + TrackExtra
                                           ELSE MaxSilentSamples)
    /\ nb' = [nb EXCEPT !.state = tone_step(nb.state, ToneSample(nb), nb.sample_rate),
                        !.samples = nb.samples + 1]
    /\ UNCHANGED <<anc, rms_log, outdata, drv, run>>

NextTone == ToneStep

SpecTone == InitTone /\ [][NextTone]_vars

\* C19: after every sample the phase accumulator is at least 0 and below 2 pi.
C19_PhaseInRange ==
    0 <= nb.state.phase /\ nb.state.phase < TWO_PI

\* C20: fed a 200 Hz sine at 48 kHz from the initial state, the smoothed
\* frequency estimate is within 2 Hz of 200 Hz at every sample from two
\* seconds onward.
C20_FrequencyConverges ==
    (nb.inputs = "sine" /\ nb.samples >= 2 * nb.sample_rate) =>
        Abs(nb.state.freq_hz - 200 * FreqOne) <= 2 * FreqOne

\* The sine has been followed beyond two seconds, across zero crossings whose
\* estimates moved the frequency off its initial value.
C20_Witness ==
    /\ nb.inputs = "sine"
    /\ nb.samples > 2 * nb.sample_rate
    /\ nb.state.freq_hz # 200 * FreqOne

-----------------------------------------------------------------------------
(* SpecRef: FxLMSANC._next_reference_block called block after block *)

\* Longest reference file of SpecRef, in samples.
MaxRefLen == 4

\* Number of fetches followed in one session of SpecRef.
MaxFetch == 4

RECURSIVE next_reference_block_file(_, _)
\* The file branch of _next_reference_block with its recursion as the source
\* writes it: the block returned, the new reference_index and the number of
\* calls of the method made below this one.  `padded` is PadTo applied by the
\* loop=False call that reads the tail of the file.
next_reference_block_file(self, loop) ==
    LET start == self.reference_index
        end   == start + self.block_size
        sig   == self.reference_signal
        block == Slice(sig, start, end)
        rewound == [self EXCEPT !.reference_index = 0]
    IN  IF start >= Len(sig)
        THEN IF loop
             THEN LET inner == next_reference_block_file(rewound, FALSE)
                  IN  [inner EXCEPT !.calls = inner.calls + 1]
             ELSE [block |-> Zeros(self.block_size), index |-> start, calls |-> 0]
        ELSE IF Len(block) < self.block_size
             THEN IF loop
                  THEN LET remaining == self.block_size - Len(block)
                           inner == next_reference_block_file(rewound, FALSE)
                       IN  [block |-> block \o Slice(inner.block, 0, remaining),
                            index |-> remaining, calls |-> inner.calls + 1]
                  ELSE [block |-> PadTo(block, self.block_size),
                        index |-> Len(sig), calls |-> 0]
             ELSE [block |-> block, index |-> end, calls |-> 0]

\* FxLMSANC._next_reference_block with its three sources: a dedicated input
\* stream (stream_block is what read() delivers), the block primed from the
\* record stream, or the file.  raised tells that the call ended in
\* RuntimeError; the other fields are the block returned and the fields of
\* the controller after the call.
fetch_reference_block(self, loop, stream_block) ==
    IF self.reference_input_device_index # "None"
    THEN IF self.reference_input_stream = "None"
         THEN [raised |-> TRUE, block |-> <<>>, index |-> self.reference_index,
               pending |-> self.pending_reference_block, calls |-> 0]
         ELSE [raised |-> FALSE, block |-> stream_block,
               index |-> self.reference_index,
               pending |-> self.pending_reference_block, calls |-> 0]
    ELSE IF self.reference_from_record_stream
    THEN IF self.pending_reference_block = <<>>
         THEN [raised |-> TRUE, block |-> <<>>, index |-> self.reference_index,
               pending |-> <<>>, calls |-> 0]
         ELSE [raised |-> FALSE, block |-> self.pending_reference_block,
               index |-> self.reference_index, pending |-> <<>>, calls |-> 0]
    ELSE LET res == next_reference_block_file(self, loop)
         IN  [raised |-> FALSE, block |-> res.block, index |-> res.index,
              pending |-> self.pending_reference_block, calls |-> res.calls]

\* Sample values of the reference files of SpecRef.
RefLevels == {ONE, -(ONE \div 2)}

\* Reference files of 0 to MaxRefLen samples.
RefSignals == UNION { [1..n -> RefLevels] : n \in 0..MaxRefLen }

\* The reference sources of a controller: a file, a dedicated input device
\* whose stream is open or not, the record stream.
RefSources ==
    { [ reference_input_device_index |-> s[1], reference_input_stream |-> s[2],
        reference_from_record_stream |-> s[3] ] :
      s \in { <<"None", "None", FALSE>>, <<"device", "None", FALSE>>,
              <<"device", "open", FALSE>>, <<"None", "None", TRUE>> } }

\* File-based reference: neither live source is configured.
FileReference(self) ==
    self.reference_input_device_index = "None" /\ ~self.reference_from_record_stream

\* A controller after _reset_state, and the loop setting of the session.
InitRef ==
    /\ anc \in { [ reference_signal |-> IF FileReference(s) THEN sig ELSE Zeros(bs),
                   reference_index |-> 0, block_size |-> bs,
                   reference_input_device_index |-> s.reference_input_device_index,
                   reference_input_stream |-> s.reference_input_stream,
                   reference_from_record_stream |-> s.reference_from_record_stream,
                   pending_reference_block |-> <<>> ] :
                 sig \in RefSignals, bs \in 1..(BlockSize + 1), s \in RefSources }
    /\ drv \in { [ on |-> FALSE, loop |-> l, fetched |-> 0,
                   last |-> [raised |-> FALSE, block |-> <<>>, index |-> 0,
                             pending |-> <<>>, calls |-> 0] ] : l \in BOOLEAN }
    /\ rms_log = <<>>
    /\ outdata = <<>>
    /\ nb = NbIdle
    /\ run = RunIdle

\* _prime_shared_reference_block: a block read from the record stream is
\* kept as the pending reference block.
RefPrime ==
    /\ anc.reference_from_record_stream
    /\ anc.pending_reference_block = <<>>
    /\ \E level \in RefLevels :
           anc' = [anc EXCEPT !.pending_reference_block = Const(anc.block_size, level)]
    /\ UNCHANGED <<rms_log, outdata, nb, drv, run>>

\* One call of _next_reference_block.
RefFetch ==
    /\ drv.fetched < MaxFetch
    /\ ~drv.last.raised
    /\ \E level \in RefLevels :
         \E res \in { fetch_reference_block(anc, drv.loop, Const(anc.block_size, level)) } :
           /\ anc' = [anc EXCEPT !.reference_index = res.index,
                                 !.pending_reference_block = res.pending]
           /\ drv' = [drv EXCEPT !.fetched = drv.fetched + 1, !.last = res]
    /\ UNCHANGED <<rms_log, outdata, nb, run>>

NextRef == RefPrime \/ RefFetch

SpecRef == InitRef /\ [][NextRef]_vars

\* C21: for a file reference of any length and either loop setting, every
\* call of _next_reference_block returns exactly block_size samples without
\* raising and makes at most one nested call of itself.
C21_ReferenceFetchNeverFails ==
    (FileReference(anc) /\ drv.fetched > 0) =>
        /\ ~drv.last.raised
        /\ Len(drv.last.block) = anc.block_size
        /\ drv.last.calls <= 1

\* A looped fetch from a non-empty file shorter than one block that needed
\* the nested call.
C21_Witness ==
    /\ FileReference(anc) /\ drv.fetched > 0 /\ drv.loop
    /\ Len(anc.reference_signal) > 0
    /\ Len(anc.reference_signal) < anc.block_size
    /\ drv.last.calls = 1
    /\ Len(drv.last.block) = anc.block_size

\* block_size samples of the periodic repetition of sig, from sample number
\* pos (counted from 0).
PeriodicFrom(sig, pos, block_size) ==
    [k \in 1..block_size |-> sig[((pos + k - 1) % Len(sig)) + 1]]

\* The block a periodic repetition of the file gives as block number n
\* (counted from 0).
PeriodicBlock(sig, n, block_size) == PeriodicFrom(sig, n * block_size, block_size)

\* C22: with loop=True and a non-empty file of length L, sample k of the n-th
\* block is signal[(n * block_size + k) mod L], for every L and block_size.
C22_LoopedReferencePeriodic ==
    (FileReference(anc) /\ drv.loop /\ drv.fetched > 0 /\ Len(anc.reference_signal) > 0) =>
        drv.last.block = PeriodicBlock(anc.reference_signal, drv.fetched - 1, anc.block_size)

-----------------------------------------------------------------------------
(* SpecPlay: the worker thread of io_utils.start_reference_playback *)

\* The block the worker builds from signal[idx : idx + block_size]: padded
\* with zeros (loop=False) or completed with signal[:rem] (loop=True).
playback_block(signal, idx, block_size, loop) ==
    LET block == Slice(signal, idx, idx + block_size)
    IN  IF Len(block) < block_size
        THEN IF ~loop
             THEN PadTo(block, block_size)
             ELSE block \o Slice(signal, 0, block_size - Len(block))
        ELSE block

\* The worker has been started on a clip: the output stream is open, idx = 0,
\* and the worker is about to test the stop event.  start is the number of
\* samples written before the last block (modulo the clip length), after_stop
\* counts the blocks written with the event set, main_stopped tells that the
\* main thread has set the event.
InitPlay ==
    /\ drv \in { [ on |-> FALSE, signal |-> sig, block_size |-> bs, loop |-> l,
                   pc |-> "test", idx |-> 0, stop_event |-> FALSE,
                   stream |-> "open", block |-> <<>>, wrote |-> FALSE,
                   start |-> 0, pos |-> 0, after_stop |-> 0, failed |-> FALSE,
                   main_stopped |-> FALSE ] :
                 sig \in RefSignals, bs \in 1..(BlockSize + 1), l \in BOOLEAN }
    /\ anc = AncIdle
    /\ rms_log = <<>>
    /\ outdata = <<>>
    /\ nb = NbIdle
    /\ run = RunIdle

\* The test of the while loop that never sees the event of the main thread.
PlayTest_deaf ==
    /\ drv.pc = "test"
    /\ drv' = IF drv.stop_event /\ ~drv.main_stopped
              THEN [drv EXCEPT !.pc = "done", !.stream = "closed"]
              ELSE [drv EXCEPT !.pc = "body"]
    /\ UNCHANGED <<anc, rms_log, outdata, nb, run>>

\* `while not stop_event.is_set()`: the worker enters the body, or leaves the
\* loop and the `with` block, which closes the stream, and returns.
PlayTest ==
    /\ drv.pc = "test"
    /\ drv' = IF drv.stop_event
              THEN [drv EXCEPT !.pc = "done", !.stream = "closed"]
              ELSE [drv EXCEPT !.pc = "body"]
    /\ UNCHANGED <<anc, rms_log, outdata, nb, run>>

\* One pass of the loop body: the block is built, idx is advanced, the event
\* is set at the end of a clip that is not looped, and the block is written.
\* A block that is not block_size long cannot be stored into buf: the
\* assignment raises, the handler logs it and the worker returns through the
\* `with` block.
PlayBody ==
    /\ drv.pc = "body"
    /\ LET length == Len(drv.signal)
           block  == playback_block(drv.signal, drv.idx, drv.block_size, drv.loop)
           step   == playback_step(drv.idx, length, drv.block_size, drv.loop)
           stop   == drv.stop_event \/ step.stop
       IN  drv' = IF Len(block) # drv.block_size
                  THEN [drv EXCEPT !.idx = step.idx, !.stop_event = stop,
                                   !.failed = TRUE, !.pc = "done",
                                   !.stream = "closed"]
                  ELSE [drv EXCEPT !.idx = step.idx, !.stop_event = stop,
                                   !.block = block, !.wrote = TRUE,
                                   !.start = drv.pos,
                                   !.pos = IF length = 0 THEN 0
                                           ELSE (drv.pos + drv.block_size) % length,
                                   !.after_stop = drv.after_stop + (IF stop THEN 1 ELSE 0),
                                   !.pc = "test"]
    /\ UNCHANGED <<anc, rms_log, outdata, nb, run>>

\* The main thread sets the stop event (the finally clause of main).
PlayStop ==
    /\ ~drv.main_stopped
    /\ drv' = [drv EXCEPT !.stop_event = TRUE, !.main_stopped = TRUE]
    /\ UNCHANGED <<anc, rms_log, outdata, nb, run>>

NextPlay == PlayTest \/ PlayBody \/ PlayStop

\* The worker is a thread of its own: it is scheduled again and again.
SpecPlay == InitPlay /\ [][NextPlay]_vars /\ WF_vars(PlayTest) /\ WF_vars(PlayBody)

\* C23: with loop=True every block the worker writes is the periodic
\* repetition of the clip continued from the sample after the last one
\* written: no sample is repeated or skipped at a wrap.
C23_LoopedPlaybackPeriodic ==
    (drv.loop /\ drv.wrote /\ Len(drv.signal) > 0) =>
        drv.block = PeriodicFrom(drv.signal, drv.start, drv.block_size)


\* C24: once the stop event is set the worker writes at most one more block,
\* then leaves its loop, closes the output stream and terminates; with
\* loop=False the worker terminates on its own, having set the event itself
\* and written the zero-padded final block.
C24_CooperativeStop ==
    /\ [](drv.after_stop <= 1)
    /\ (drv.stop_event ~> (drv.pc = "done" /\ drv.stream = "closed"))
    /\ (~drv.loop ~> drv.pc = "done")
    /\ []((~drv.loop /\ drv.pc = "done" /\ ~drv.main_stopped) =>
            /\ drv.stop_event /\ drv.wrote /\ drv.after_stop = 1
            /\ drv.block = PadTo(Slice(drv.signal,
                                       Len(drv.signal) - (Len(drv.signal) % drv.block_size),
                                       Len(drv.signal)),
                                 drv.block_size))

\* The main thread set the event while a looped worker was inside the loop
\* body: the worker wrote that block and then closed the stream.
C24_Witness ==
    /\ drv.loop /\ drv.main_stopped /\ drv.after_stop = 1
    /\ drv.pc = "done" /\ drv.stream = "closed" /\ ~drv.failed

-----------------------------------------------------------------------------
(* SpecFile: run(loop_reference=False) on a finite file reference *)

\* run() has started on a controller with a non-empty file reference, without
\* looping, with or without a metrics callback and a max_duration.
InitFile ==
    /\ anc \in { FxLMSANC([FileArgs EXCEPT !.reference_signal = sig]) :
                   sig \in RefSignals \ {<<>>} }
    /\ run \in { RunStarted(FALSE, metrics, duration) :
                   metrics \in BOOLEAN, duration \in {0, MaxDuration} }
    /\ rms_log = <<>>
    /\ outdata = <<>>
    /\ nb = NbIdle
    /\ drv = DrvIdle

NextFile == FxCallback \/ RunMonitor \/ RunFinally

\* The driver has a block to deliver: the stream is active and the callback
\* has not been told to stop.
CallbackDue ==
    run.stream = "active" /\ ~anc.stop_requested /\ anc.frame_index < MaxBlocks

\* Weak fairness of the callback that processes a block, written out: the
\* driver of an active stream delivers block after block of block_size frames.
DriverFair ==
    ([]<>~CallbackDue) \/ ([]<><<anc'.frame_index = anc.frame_index + 1>>_vars)

\* The audio driver keeps calling back while the stream is active, and the
\* main thread keeps running.
SpecFile ==
    InitFile /\ [][NextFile]_vars
    /\ DriverFair /\ WF_vars(RunMonitor) /\ WF_vars(RunFinally)

\* ceil(L / block_size) for the controller's file.
FileBlocks(self) ==
    (Len(self.reference_signal) + self.block_size - 1) \div self.block_size

\* The last block of the file, zero-padded to block_size.
LastFileBlock(self) ==
    PadTo(Slice(self.reference_signal, (FileBlocks(self) - 1) * self.block_size,
                Len(self.reference_signal)),
          self.block_size)

\* The callback ended the session itself: it processed a block and found the
\* file used up.
EndedByReference == run.last_cb = "processed" /\ run.stream = "finished"

\* C25: on a non-empty file reference without looping the callback never
\* processes more than ceil(L / block_size) blocks; the block that uses up the
\* file is block number ceil(L / block_size), its reference is the
\* zero-padded tail of the file, and it sets the stop flag; once the flag is
\* set no further block is processed, and run() eventually returns.
C25_FiniteReferenceTerminates ==
    /\ [](anc.frame_index <= FileBlocks(anc))
    /\ []((anc.frame_index = FileBlocks(anc)) => anc.stop_requested)
    /\ [](EndedByReference =>
            /\ anc.frame_index = FileBlocks(anc)
            /\ anc.reference_index = Len(anc.reference_signal)
            /\ \A i \in 1..Min(anc.filter_length, anc.block_size) :
                   anc.ref_history[i] = LastFileBlock(anc)[anc.block_size - i + 1])
    /\ [][anc.stop_requested =>
            (anc'.frame_index = anc.frame_index /\ anc'.weights = anc.weights)]_vars
    /\ <>(run.pc = "returned")

\* A session that was ended by the file running out, on a zero-padded block,
\* and whose run() has returned.
C25_Witness ==
    /\ run.pc = "returned" /\ ~run.expired
    /\ run.last_cb = "processed"
    /\ anc.reference_index = Len(anc.reference_signal)
    /\ anc.frame_index = FileBlocks(anc) /\ anc.frame_index > 1
    /\ Len(anc.reference_signal) % anc.block_size # 0

-----------------------------------------------------------------------------
(* More properties of the adaptation gate (SpecGate) *)

\* C26: a gate that is disabled starts with the hold counter at zero; every
\* block after which the smoothed error is below restart_threshold leaves it
\* disabled with the counter at zero, every block at or above it counts one,
\* and the gate switches to enabled exactly on the block that brings the
\* count to hold_frames.
C26_GateReenable ==
    [][ GateFedStep =>
          /\ (anc.adapt_enabled /\ ~anc'.adapt_enabled) => anc'.adapt_hold = 0
          /\ ~anc.adapt_enabled =>
               /\ anc.adapt_hold < anc.adapt_hold_frames
               /\ IF anc'.error_smooth < anc.adapt_restart_threshold
                  THEN ~anc'.adapt_enabled /\ anc'.adapt_hold = 0
                  ELSE IF anc.adapt_hold + 1 = anc.adapt_hold_frames
                       THEN anc'.adapt_enabled /\ anc'.adapt_hold = 0
                       ELSE ~anc'.adapt_enabled
                            /\ anc'.adapt_hold = anc.adapt_hold + 1 ]_vars

\* The gate was disabled after two quiet blocks and has re-enabled on the
\* second of two consecutive loud blocks.
C26_Witness ==
    /\ anc.adapt_hold_frames = 2
    /\ Len(rms_log) = 4
    /\ rms_log[2] <= anc.adapt_stop_threshold
    /\ rms_log[3] >= anc.adapt_restart_threshold
    /\ anc.error_smooth >= anc.adapt_restart_threshold
    /\ anc.error_ema_alpha = ONE
    /\ anc.adapt_enabled /\ anc.adapt_hold = 0

-----------------------------------------------------------------------------
(* The gate inside the callback (SpecFx) *)

\* The callback has processed a block in this step.
BlockProcessed ==
    anc'.frame_index = anc.frame_index + 1 /\ run'.last_cb = "processed"

\* The output buffer the callback writes for reference block ref when it
\* synthesizes from the weights the controller holds on entry.
SynthesizedOutput(ref) ==
    LET syn == synthesize_block(anc, apply_reference_lowpass(anc, ref).block)
    IN  write_outdata(anc, ref,
                      [i \in 1..Len(ref) |->
                          Mul(syn.anti_noise[i], anc.control_output_gain)])

\* C27: in every block after whose gate update the gate is disabled (the
\* block that disables it included) the weights after the block are the
\* weights before it, and the output written is the one synthesized from those
\* weights.
C27_DisabledGateFreezesWeights ==
    [][ (BlockProcessed /\ ~anc'.adapt_enabled) =>
          /\ anc'.weights = anc.weights
          /\ ~anc.manual_gain_mode =>
                \E ref \in NextRefBlocks : outdata' = SynthesizedOutput(ref) ]_vars

\* The block that disabled the gate has been processed with non-zero weights
\* and leakage configured: it produced a non-zero output and the weights are
\* those found on entry.
C27_Witness ==
    /\ run.last_cb = "processed"
    /\ ~anc.adapt_enabled /\ ~anc.manual_gain_mode
    /\ anc.leakage > 0
    /\ anc.weights # Zeros(anc.filter_length)
    /\ anc.weights = run.cb_weights
    /\ outdata # Filled(control_channels(anc), anc.block_size, 0)


RECURSIVE GateChanges(_, _)
\* The number of times adapt_enabled changes while the gate self is fed the
\* error-RMS values of log one after the other.
GateChanges(self, log) ==
    IF log = <<>> THEN 0
    ELSE LET next == update_adaptation_gate(self, Head(log))
         IN  (IF next.adapt_enabled # self.adapt_enabled THEN 1 ELSE 0)
             + GateChanges(next, Tail(log))

\* Every error RMS fed since the reset is the same value.
ConstantLog == \A i \in 1..Len(rms_log) : rms_log[i] = rms_log[1]

\* C28: every constructed controller has restart_threshold >= stop_threshold,
\* and fed a constant error RMS from the reset on (any value, a threshold
\* included, also when the restart threshold was configured below the stop
\* threshold) the gate changes state at most once.
C28_NoChattering ==
    /\ anc.adapt_restart_threshold >= anc.adapt_stop_threshold
    /\ ConstantLog => GateChanges(reset_state(anc), rms_log) <= 1

-----------------------------------------------------------------------------
(* More properties of the zero-crossing runner (SpecZc) *)

\* C29: at the poll that freezes adaptation, the error RMS read at that poll
\* is itself at least FREEZE_RELATIVE_DROP below the baseline: a low reading
\* that has since returned to the baseline level does not freeze.
C29_FreezeNeedsSustainedDrop ==
    [][ (drv.on /\ drv'.freezes # drv.freezes) =>
          (drv'.baseline_err - ErrMicro(nb.state.err_rms)) * 100
              >= FREEZE_RELATIVE_DROP * drv'.baseline_err ]_vars


\* What the callback leaves for the blocks ref and err in the current state,
\* were STEP_SIZE and LEAKAGE configured as st and lk.
ZcAfter(ref, err, st, lk) ==
    zc_audio_callback([nb EXCEPT !.STEP_SIZE = st, !.LEAKAGE = lk], drv,
                      nb.BLOCK_SIZE, ref, err)

\* C30: outside the Active phase no block adapts: every callback step taken
\* in Baseline or Frozen leaves wa and wb as they were, and in every such
\* state, whatever reference and error block comes next and whatever STEP_SIZE
\* and LEAKAGE are configured, the callback runs the engine with step size 0
\* and leakage 0, leaves wa and wb exactly unchanged, writes an all-zero
\* output when the coefficients are zero, and still advances the phase
\* accumulator and the zero-crossing tracking.
C30_NoAdaptationOutsideActive ==
    /\ [][ (nb.on /\ Phase(drv) # "Active" /\ nb'.blocks # nb.blocks) =>
              (nb'.state.wa = nb.state.wa /\ nb'.state.wb = nb.state.wb) ]_vars
    /\ []((nb.on /\ Phase(drv) # "Active") =>
            \A ref \in RefBlocks(nb.BLOCK_SIZE), err \in ErrBlocks(nb.BLOCK_SIZE),
               st \in {nb.STEP_SIZE, ONE \div 2}, lk \in {nb.LEAKAGE, ONE \div 10} :
               LET res == ZcAfter(ref, err, st, lk)
               IN  /\ res.nb.state =
                         smart_anc_process(ref, err, nb.state,
                                           REFERENCE_SAMPLE_RATE, 0, 0).state
                   /\ res.nb.state.wa = nb.state.wa
                   /\ res.nb.state.wb = nb.state.wb
                   /\ (nb.state.wa = 0 /\ nb.state.wb = 0) =>
                         res.outdata = Filled(output_channels(nb), nb.BLOCK_SIZE, 0)
                   /\ res.nb.state.phase # nb.state.phase
                   /\ res.nb.state.prev_ref = ref[Len(ref)]
                   /\ res.nb.state.samples_since
                         <= nb.state.samples_since + nb.BLOCK_SIZE)

\* A block with a non-zero error has been processed during Baseline: the
\* coefficients are still zero, the output is all zeros and the phase
\* accumulator has moved.
C30_Witness ==
    /\ nb.on /\ Phase(drv) = "Baseline"
    /\ run.last_cb = "processed"
    /\ nb.state.err_rms > 0
    /\ nb.state.wa = 0 /\ nb.state.wb = 0
    /\ nb.state.phase > 0
    /\ outdata = Filled(output_channels(nb), nb.BLOCK_SIZE, 0)


\* C31: once a baseline exists it is at least FREEZE_BASELINE_MIN_ERR and
\* strictly positive, so the relative improvement the freeze check computes
\* is a division by a positive number, whether the baseline was measured over
\* the baseline window (all readings zero included) or taken from the first
\* reading of a session without a baseline phase; the freeze check runs only
\* when a baseline exists.
C31_BaselineNeverDegenerate ==
    drv.on =>
        /\ drv.baseline_err # -1 =>
              (drv.baseline_err >= FREEZE_BASELINE_MIN_ERR /\ drv.baseline_err > 0)
        /\ freeze_due(drv, drv.now) => drv.baseline_err # -1
        /\ (drv.baseline_duration > 0 /\ ~drv.baseline_active) => drv.baseline_err # -1

\* A baseline measured over silent readings only was floored, and the freeze
\* check has computed the improvement against it.
C31_Witness ==
    /\ drv.on /\ drv.baseline_duration > 0
    /\ drv.baseline_sum = 0 /\ drv.baseline_count > 0
    /\ drv.baseline_err = FREEZE_BASELINE_MIN_ERR
    /\ freeze_due(drv, drv.now)

-----------------------------------------------------------------------------
(* SpecCross: the zero-crossing frequency estimate, sample by sample *)

\* Samples followed from each drawn state.
MaxCrossSteps == 2

\* Reference samples: negative, zero, positive.
CrossSamples == { -(ONE \div 2), 0, ONE \div 2 }

\* Counts of samples since the last crossing: around the limit 1 and around
\* the counts whose estimate is 1000 Hz and 50 Hz at 8 kHz and at 48 kHz.
CrossCounters == { 0, 1, 2, 4, 5, 24, 25, 79, 80, 100, 479, 480 }

\* Smoothed frequencies inside the band: just above 50 Hz, the initial 200 Hz
\* and just below 1000 Hz.
CrossFrequencies == { 50 * FreqOne + 1, InitialState.freq_hz, 1000 * FreqOne - 1 }

\* The engine in the middle of a session: any previous sample, count and
\* smoothed frequency of the sets above.  before is the state the last sample
\* was processed from and ref that sample.
InitCross ==
    /\ nb \in { [ on |-> TRUE, inputs |-> "samples", sample_rate |-> sr, samples |-> 0,
                  ref |-> 0,
                  before |-> [ prev_ref |-> p, phase |-> 0, samples_since |-> c,
                               freq_hz |-> f, wa |-> 0, wb |-> 0, out |-> <<>> ],
                  state |-> [ prev_ref |-> p, phase |-> 0, samples_since |-> c,
                              freq_hz |-> f, wa |-> 0, wb |-> 0, out |-> <<>> ] ] :
                sr \in {8000, REFERENCE_SAMPLE_RATE}, p \in CrossSamples,
                c \in CrossCounters, f \in CrossFrequencies }
    /\ drv = DrvIdle
    /\ anc = AncIdle
    /\ rms_log = <<>>
    /\ outdata = <<>>
    /\ run = [RunIdle EXCEPT !.stream = "active", !.pc = "loop"]

\* The engine processes one more sample.
CrossStep ==
    /\ nb.samples < MaxCrossSteps
    /\ \E ref \in CrossSamples :
          nb' = [nb EXCEPT !.state = tone_step(nb.state, ref, nb.sample_rate),
                           !.before = nb.state, !.ref = ref,
                           !.samples = nb.samples + 1]
    /\ UNCHANGED <<anc, rms_log, outdata, drv, run>>

NextCross == CrossStep

SpecCross == InitCross /\ [][NextCross]_vars

\* The last sample was a validated crossing: a sign change with zero counted
\* as non-negative, a count above 1, and sample_rate / (2 * count) strictly
\* between 50 Hz and 1000 Hz.
ValidatedCrossing(n) ==
    /\ (n.ref >= 0) # (n.before.prev_ref >= 0)
    /\ n.before.samples_since > 1
    /\ 50 * 2 * n.before.samples_since < n.sample_rate
    /\ n.sample_rate < 1000 * 2 * n.before.samples_since

\* C32: the smoothed frequency changes on a sample only if that sample is a
\* validated crossing; on every other sample it is unchanged; and from inside
\* (50 Hz, 1000 Hz) it stays inside.
C32_FrequencyChangesOnValidCrossing ==
    /\ nb.samples > 0 =>
          (nb.state.freq_hz # nb.before.freq_hz => ValidatedCrossing(nb))
    /\ 50 * FreqOne < nb.state.freq_hz
    /\ nb.state.freq_hz < 1000 * FreqOne

\* A crossing whose estimate is exactly 1000 Hz (count 24 at 48 kHz) was
\* rejected: the frequency is as it was and the count has restarted.
C32_Witness ==
    /\ nb.samples > 0
    /\ (nb.ref >= 0) # (nb.before.prev_ref >= 0)
    /\ nb.before.samples_since = 24
    /\ nb.sample_rate = REFERENCE_SAMPLE_RATE
    /\ nb.state.freq_hz = nb.before.freq_hz
    /\ nb.state.samples_since = 1


\* The step size the callback passes to the engine under driver state d.
StepSizeUnder(d) == IF d.adaptation_active THEN nb.STEP_SIZE ELSE 0

\* C33: what the monitor reads from state[7] does not influence the audio
\* thread: after any next block, a poll that reads a stale error RMS (the one
\* published before that block) and a poll at the same time that reads the
\* fresh one leave the callback the same step size.
C33_MonitorReadsNotControlCritical ==
    (drv.on /\ nb.on) =>
        \A ref \in ZcRefBlocks(nb), err \in ZcErrBlocks(nb), dt \in 1..2 :
            LET after == zc_audio_callback(nb, drv, nb.BLOCK_SIZE, ref, err).nb
                stale == poll(drv, drv.now + dt, ErrMicro(nb.state.err_rms))
                fresh == poll(drv, drv.now + dt, ErrMicro(after.state.err_rms))
            IN  StepSizeUnder(stale) = StepSizeUnder(fresh)

-----------------------------------------------------------------------------
(* NumbaFxLMSANC: the compiled loops against the base class *)

\* The shifting loop with its assignment lost: the history keeps its samples.
shift_loop_none(h, j) == h

RECURSIVE shift_loop(_, _)
\* for j in range(length - 1, 0, -1): h[j] = h[j - 1], from 1-based index j
\* downwards (lines 50-51, 59-60, 67-68).
shift_loop(h, j) ==
    IF j < 2 THEN h ELSE shift_loop([h EXCEPT ![j] = h[j - 1]], j - 1)

RECURSIVE dot_loop(_, _, _, _)
\* acc = 0.0; for j in range(length): acc += a[j] * b[j] (lines 54-56, 63-65),
\* from 1-based index j with the products so far in acc; the sum is rounded
\* once, where it is stored.
dot_loop(a, b, j, acc) ==
    IF j > Len(a) THEN TruncDiv(acc, ONE)
    ELSE dot_loop(a, b, j + 1, acc + a[j] * b[j])

RECURSIVE synthesize_run_numba(_, _)
\* The sample loop of _synthesize_block_numba (lines 47-71) over the rest of
\* the block; filter_length and sec_length are the lengths of weights and
\* secondary_path.
synthesize_run_numba(s, block) ==
    IF block = <<>> THEN s
    ELSE LET x_n == Head(block)
             filter_length == Len(s.weights)
             sec_length == Len(s.secondary_path)
             rh == [shift_loop(s.ref_history, filter_length) EXCEPT ![1] = x_n]
             acc == dot_loop(s.weights, rh, 1, 0)
             sh == [shift_loop(s.sec_history, sec_length) EXCEPT ![1] = x_n]
             filtered == dot_loop(s.secondary_path, sh, 1, 0)
             fh == [shift_loop(s.fx_history, filter_length) EXCEPT ![1] = filtered]
         IN  synthesize_run_numba(
                 [s EXCEPT !.ref_history = rh, !.sec_history = sh,
                           !.fx_history = fh,
                           !.anti_noise = Append(s.anti_noise, acc),
                           !.fx_vectors = Append(s.fx_vectors, fh)],
                 Tail(block))

\* NumbaFxLMSANC._synthesize_block (lines 123-137): anti_noise, fx_vectors and
\* the arrays the compiled loop was handed, as it leaves them.
synthesize_block_numba(self, ref_block) ==
    synthesize_run_numba(
        [ weights |-> self.weights, secondary_path |-> self.secondary_path,
          ref_history |-> self.ref_history, sec_history |-> self.sec_history,
          fx_history |-> self.fx_history,
          anti_noise |-> <<>>, fx_vectors |-> <<>> ],
        ref_block)

\* C34: for the same weights, histories, secondary path and reference block
\* NumbaFxLMSANC._synthesize_block returns the anti-noise block and the
\* filtered-reference vectors of FxLMSANC._synthesize_block, leaves the three
\* histories in the same state and the weights unchanged.
C34_NumbaSynthesisMatchesBase ==
    ~nb.on =>
        \A ref \in NextRefBlocks :
            LET block == apply_reference_lowpass(anc, ref).block
                base  == synthesize_block(anc, block)
                numba == synthesize_block_numba(anc, block)
            IN  /\ numba.anti_noise = base.anti_noise
                /\ numba.fx_vectors = base.fx_vectors
                /\ numba.ref_history = base.ref_history
                /\ numba.sec_history = base.sec_history
                /\ numba.fx_history = base.fx_history
                /\ numba.weights = anc.weights
                /\ base.weights = anc.weights

\* An adapted controller whose histories hold two different samples meets a
\* block that is not silent: the anti-noise is not zero.
C34_Witness ==
    /\ ~nb.on
    /\ anc.weights # Zeros(anc.filter_length)
    /\ anc.ref_history[1] # anc.ref_history[2]
    /\ anc.fx_history[1] # anc.fx_history[2]
    /\ \E ref \in NextRefBlocks :
          synthesize_block_numba(anc, ref).anti_noise # Zeros(anc.block_size)


\* C35: from the same weights, error block, filtered-reference vectors, step
\* size and leakage NumbaFxLMSANC._update_weights produces the weights of
\* FxLMSANC._update_weights.
C35_NumbaUpdateMatchesBase ==
    ~nb.on =>
        \A ref \in NextRefBlocks, err \in ErrBlocks(anc.block_size) :
            LET syn == synthesize_block(anc, apply_reference_lowpass(anc, ref).block)
            IN  update_weights([anc EXCEPT !.numba = TRUE], err, syn.fx_vectors)
                = update_weights([anc EXCEPT !.numba = FALSE], err, syn.fx_vectors)

-----------------------------------------------------------------------------
(* More properties of the adaptation gate (SpecGate) *)

RECURSIVE MinGateGap(_, _, _)
\* The smallest number of blocks between two consecutive changes of
\* adapt_enabled while the gate self is fed the error-RMS values of log; since
\* is the number of blocks fed since the last change, -1 before the first.
\* Inf when there are fewer than two changes.
MinGateGap(self, log, since) ==
    IF log = <<>> THEN Inf
    ELSE LET next == update_adaptation_gate(self, Head(log))
         IN  IF next.adapt_enabled # self.adapt_enabled
             THEN LET rest == MinGateGap(next, Tail(log), 0)
                  IN  IF since >= 0 /\ since + 1 < rest THEN since + 1 ELSE rest
             ELSE MinGateGap(next, Tail(log),
                             IF since < 0 THEN since ELSE since + 1)

\* C36: after every gate update 0 <= _adapt_hold < adapt_hold_frames, the
\* counter is 0 right after every change of adapt_enabled, and two consecutive
\* changes are at least adapt_hold_frames blocks apart.
C36_GateHoldCounter ==
    /\ [](/\ 0 <= anc.adapt_hold
          /\ anc.adapt_hold < anc.adapt_hold_frames
          /\ MinGateGap(reset_state(anc), rms_log, -1) >= anc.adapt_hold_frames)
    /\ [][ (GateFedStep /\ anc'.adapt_enabled # anc.adapt_enabled)
           => anc'.adapt_hold = 0 ]_vars

\* With adapt_hold_frames = 2 the gate disabled on the second block and
\* re-enabled on the fourth.
C36_Witness ==
    /\ anc.adapt_hold_frames = 2
    /\ Len(rms_log) = 4
    /\ anc.adapt_enabled /\ anc.adapt_hold = 0
    /\ MinGateGap(reset_state(anc), rms_log, -1) = 2

-----------------------------------------------------------------------------
(* The callbacks on a block of the wrong size (Spec) *)

\* Frame counts other than block_size that the driver may deliver.
WrongFrames(block_size) == { 0, block_size - 1, block_size + 1 }

-----------------------------------------------------------------------------
(* SpecSplit: the delay lines over a signal cut into blocks *)

\* Length of the signals that are cut into blocks.
MaxSplitLen == 4

\* The reference low-pass and _synthesize_block over one block, as the
\* callback chains them (lines 463, 469): the controller after the block and
\* the filtered samples, anti-noise samples and filtered-reference vectors.
filter_and_synthesize(self, block) ==
    LET lp  == apply_reference_lowpass(self, block)
        syn == synthesize_block(self, lp.block)
    IN  [ anc |-> [self EXCEPT !.reference_lowpass_state = lp.state,
                               !.ref_history = syn.ref_history,
                               !.sec_history = syn.sec_history,
                               !.fx_history = syn.fx_history],
          filtered |-> lp.block,
          anti_noise |-> syn.anti_noise,
          fx_vectors |-> syn.fx_vectors ]

\* Controllers in the middle of a session with adaptation off: with and
\* without the reference low-pass, delta or two-tap secondary path, adapted
\* weights, silent or filled delay lines.
SplitControllers ==
    { [FxLMSANC([BaseArgs EXCEPT !.reference_lowpass_alpha = al,
                                 !.secondary_path = sp])
          EXCEPT !.weights = [j \in 1..FilterLen |->
                                 IF j = 1 THEN ONE \div 2 ELSE -(ONE \div 4)],
                 !.adapt_enabled = FALSE,
                 !.reference_lowpass_state = IF al < 0 THEN 0 ELSE h \div 2,
                 !.ref_history = [j \in 1..FilterLen |-> IF j = 1 THEN h ELSE 0],
                 !.sec_history = [j \in 1..Len(sp) |-> IF j = 1 THEN h ELSE 0],
                 !.fx_history = [j \in 1..FilterLen |-> IF j = 1 THEN h ELSE 0]] :
        al \in {-1, ONE \div 2, ONE \div 4},
        sp \in {DeltaPath, <<ONE \div 2, ONE \div 2>>},
        h \in {0, ONE} }

\* A controller, a signal and nothing fed yet.  drv holds the controller at
\* the start, the signal, the number of samples fed and the outputs so far.
InitSplit ==
    /\ anc \in SplitControllers
    /\ drv \in { [ on |-> FALSE, start |-> anc, signal |-> sig, pos |-> 0,
                   filtered |-> <<>>, anti_noise |-> <<>>, fx_vectors |-> <<>> ] :
                 sig \in [1..MaxSplitLen -> RefLevels] }
    /\ nb = NbIdle
    /\ rms_log = <<>>
    /\ outdata = <<>>
    /\ run = RunIdle

\* The next block of the signal, of any length up to the rest, goes through
\* the low-pass and the synthesis.
SplitFeed ==
    /\ drv.pos < Len(drv.signal)
    /\ \E n \in 1..(Len(drv.signal) - drv.pos) :
          \E res \in {filter_and_synthesize(
                          anc, SubSeq(drv.signal, drv.pos + 1, drv.pos + n))} :
              /\ anc' = res.anc
              /\ drv' = [drv EXCEPT !.pos = drv.pos + n,
                                    !.filtered = drv.filtered \o res.filtered,
                                    !.anti_noise = drv.anti_noise \o res.anti_noise,
                                    !.fx_vectors = drv.fx_vectors \o res.fx_vectors]
    /\ UNCHANGED <<rms_log, outdata, nb, run>>

NextSplit == SplitFeed

SpecSplit == InitSplit /\ [][NextSplit]_vars

\* C38: with the weights fixed, however the samples fed so far were cut into
\* blocks, the filtered samples, the anti-noise samples, the filtered-reference
\* vectors and the low-pass and history state are those of the same samples
\* fed as one block.
C38_BlockBoundariesInvisible ==
    LET whole == filter_and_synthesize(drv.start, SubSeq(drv.signal, 1, drv.pos))
    IN  /\ drv.filtered = whole.filtered
        /\ drv.anti_noise = whole.anti_noise
        /\ drv.fx_vectors = whole.fx_vectors
        /\ anc = whole.anc

\* A whole signal with a change of level has gone, in blocks, through the
\* low-pass of a controller whose delay lines were not silent.
C38_Witness ==
    /\ drv.pos = Len(drv.signal)
    /\ anc.reference_lowpass_alpha >= 0
    /\ drv.start.ref_history # Zeros(anc.filter_length)
    /\ drv.signal[1] # drv.signal[2]
    /\ anc.reference_lowpass_state # drv.start.reference_lowpass_state
    /\ drv.anti_noise # Zeros(Len(drv.signal))

-----------------------------------------------------------------------------
(* The published metrics (SpecFx) *)

\* C39: the output_rms of the AncMetrics a callback publishes is the RMS of
\* the block that callback wrote to the channel carrying the anti-noise:
\* channel 1 in split-reference-channel mode, control_output_channel otherwise.
C39_OutputRmsIsEmittedAntiNoise ==
    (~nb.on /\ ~anc.stop_requested) =>
        \A ref \in NextRefBlocks, err \in ErrBlocks(anc.block_size) :
            LET res == audio_callback(anc, [run EXCEPT !.metrics_on = TRUE],
                                      anc.block_size, ref, err, 0)
                queue == res.run.metrics_queue
                emitted == res.outdata[IF anc.split_reference_channels THEN 2
                                       ELSE anc.control_output_channel + 1]
            IN  queue[Len(queue)].output_rms = Rms(emitted)
=============================================================================
